---------------------------- MODULE Spec2Model ----------------------------
(***************************************************************************)
(* EditableSelection (wizdm): the virtual document selection mapping the   *)
(* browser range selection onto the internal document data tree, and the   *)
(* editing operations performed through it.                                *)
(*                                                                         *)
(* The selection object is modelled as a record s holding its fields       *)
(* (start, startOfs, end, endOfs, modified, stack), the document tree it   *)
(* is attached to (leaf, cont, doc), the host's native range (hostRange)   *)
(* and the outcome of the running call (raised: a TypeError left the       *)
(* handler; stale: the removed leaves a tree primitive was called on).     *)
(* Every method of the class is an operator from such a record to the      *)
(* record the method leaves behind; every action applies one method.       *)
(***************************************************************************)
EXTENDS Integers, Sequences, FiniteSets, TLC

VARIABLES start, startOfs, end, endOfs, modified, stack,
          leaf, cont, doc, hostRange, raised, stale, op, arg, pre

vars == <<start, startOfs, end, endOfs, modified, stack,
          leaf, cont, doc, hostRange, raised, stale, op, arg, pre>>

(***************************************************************************)
(* Bounds of the model.                                                    *)
(***************************************************************************)
\* longest leaf text of an initial document
MaxLen == 2
\* largest |delta| handed to move()
MaxDelta == 2
\* deepest nesting of save() calls
MaxSaves == 1
\* most nodes the editing session removes behind the selection's back
MaxRemoved == 2
\* most calls in one run of the whole engine
MaxCalls == 2

\* null / undefined reference
Null == 0

\* an omitted trailing argument
Omitted == -1

(***************************************************************************)
(* The document tree (EditableText / EditableContent), as the selection    *)
(* sees it: leaves with a text value, a type, a style set, a removed flag  *)
(* and their owning container; containers with their ordered content; the  *)
(* document order of the containers.                                       *)
(***************************************************************************)
RECURSIVE Str(_)
Str(n) == IF n = 0 THEN <<>> ELSE <<"a">> \o Str(n - 1)

NewLeaf(v, t, st, c) ==
  [value |-> v, type |-> t, style |-> st, url |-> Null, removed |-> FALSE,
   container |-> c]

NewCont(t, content) ==
  [type |-> t, blocks |-> <<>>, align |-> "left", removed |-> FALSE, content |-> content]

\* leaf.length
length(s, n) == Len(s.leaf[n].value)

\* leaf.empty
empty(s, n) == length(s, n) = 0

RECURSIVE FlatFrom(_, _)
FlatFrom(s, i) ==
  IF i > Len(s.doc) THEN <<>> ELSE s.cont[s.doc[i]].content \o FlatFrom(s, i + 1)

\* the attached leaves in document order
Flat(s) == FlatFrom(s, 1)

IndexOf(seq, x) ==
  IF \E i \in 1..Len(seq) : seq[i] = x
  THEN CHOOSE i \in 1..Len(seq) : seq[i] = x
  ELSE 0

\* leaf.siblings(other): same immediate container
siblings(s, a, b) == s.leaf[a].container = s.leaf[b].container

\* leaf.previousText(traverse): the previous leaf, crossing containers on traverse
previousText(s, n, traverse) ==
  LET f == Flat(s)
      i == IndexOf(f, n)
  IN IF i <= 1 THEN Null
     ELSE IF traverse \/ siblings(s, f[i - 1], n) THEN f[i - 1] ELSE Null

\* leaf.nextText(traverse): the next leaf, crossing containers on traverse
nextText(s, n, traverse) ==
  LET f == Flat(s)
      i == IndexOf(f, n)
  IN IF i = 0 \/ i = Len(f) THEN Null
     ELSE IF traverse \/ siblings(s, f[i + 1], n) THEN f[i + 1] ELSE Null

\* leaf.compare(other): document order, <0 before, 0 same, >0 after
compare(s, a, b) ==
  LET f == Flat(s)
      i == IndexOf(f, a)
      j == IndexOf(f, b)
  IN IF i < j THEN -1 ELSE IF i > j THEN 1 ELSE 0

(***************************************************************************)
(* Selection predicates.                                                   *)
(***************************************************************************)
valid(s) == s.start # Null /\ s.end # Null

single(s) == valid(s) /\ s.start = s.end

multi(s) == ~single(s)

\* whole looking at the start offset only
wholeStartOnly(s) == valid(s) /\ s.startOfs = 0

whole(s) == valid(s) /\ s.startOfs = 0 /\ s.endOfs = length(s, s.end)

collapsed(s) == single(s) /\ s.startOfs = s.endOfs

contained(s) ==
  single(s) \/ (valid(s) /\ s.leaf[s.start].container = s.leaf[s.end].container)

\* mark() ignoring its argument
markValid(s, m) == [s EXCEPT !.modified = valid(s)]

mark(s, m) == [s EXCEPT !.modified = valid(s) /\ m]

(***************************************************************************)
(* Calls that fail: a member read through null throws a TypeError, which   *)
(* leaves the handler with the state reached so far.                       *)
(***************************************************************************)
throw(s) == [s EXCEPT !.raised = TRUE]

\* a tree primitive called on leaf n (recorded when n is a removed leaf)
call(s, n) ==
  IF n = Null THEN throw(s)
  ELSE IF s.leaf[n].removed THEN [s EXCEPT !.stale = @ \cup {n}] ELSE s

(***************************************************************************)
(* Positional primitives.                                                  *)
(***************************************************************************)
setStart(s, node, ofs) ==
  [s EXCEPT !.start = node,
            !.startOfs = IF node # Null /\ ofs < 0 THEN length(s, node) ELSE ofs,
            !.modified = TRUE]

\* setEnd() keeping a negative offset as it is
setEndRaw(s, node, ofs) ==
  [s EXCEPT !.end = node, !.endOfs = ofs, !.modified = TRUE]

setEnd(s, node, ofs) ==
  [s EXCEPT !.end = node,
            !.endOfs = IF node # Null /\ ofs < 0 THEN length(s, node) ELSE ofs,
            !.modified = TRUE]

set(s, a, aOfs, b, bOfs) == setEnd(setStart(s, a, aOfs), b, bOfs)

setCursor(s, node, ofs) == set(s, node, ofs, node, ofs)

collapse(s) == set(s, s.start, s.startOfs, s.start, s.startOfs)

RECURSIVE absLoop(_, _, _, _)
absLoop(s, node, ofs, i) ==
  LET content == s.cont[s.leaf[node].container].content
  IN IF i > Len(content) THEN <<Null, 0>>
     ELSE IF content[i] = node THEN <<s.leaf[node].container, ofs>>
     ELSE absLoop(s, node, ofs + length(s, content[i]), i + 1)

absPoint(s, node, ofs) ==
  IF node = Null \/ s.leaf[node].removed THEN <<Null, 0>>
  ELSE absLoop(s, node, ofs, 1)

\* the loop of relPoint() stopping only strictly inside a child
RECURSIVE relLoopStrict(_, _, _, _)
relLoopStrict(s, c, ofs, i) ==
  LET content == s.cont[c].content
  IN IF i > Len(content) THEN <<Null, 0>>
     ELSE IF ofs < length(s, content[i]) THEN <<content[i], ofs>>
     ELSE relLoopStrict(s, c, ofs - length(s, content[i]), i + 1)

RECURSIVE relLoop(_, _, _, _)
relLoop(s, c, ofs, i) ==
  LET content == s.cont[c].content
  IN IF i > Len(content) THEN <<Null, 0>>
     ELSE IF ofs <= length(s, content[i]) THEN <<content[i], ofs>>
     ELSE relLoop(s, c, ofs - length(s, content[i]), i + 1)

relPoint(s, c, ofs) ==
  IF c = Null THEN <<Null, 0>> ELSE relLoop(s, c, ofs, 1)

\* moveBack keeping the negative offset when no previous leaf exists
RECURSIVE moveBackNoClamp(_, _, _)
moveBackNoClamp(s, node, offset) ==
  IF offset >= 0 THEN <<node, offset>>
  ELSE LET prev == previousText(s, node, TRUE)
       IN IF prev = Null THEN <<node, offset>>
          ELSE moveBackNoClamp(s, prev,
                 (IF ~siblings(s, prev, node) THEN offset + 1 ELSE offset)
                 + length(s, prev))

RECURSIVE moveBack(_, _, _)
moveBack(s, node, offset) ==
  IF offset >= 0 THEN <<node, offset>>
  ELSE LET prev == previousText(s, node, TRUE)
       IN IF prev = Null THEN <<node, 0>>
          ELSE moveBack(s, prev,
                 (IF ~siblings(s, prev, node) THEN offset + 1 ELSE offset)
                 + length(s, prev))

\* moveAhead charging nothing for a container boundary
RECURSIVE moveAheadNoBreak(_, _, _)
moveAheadNoBreak(s, node, offset) ==
  IF offset <= length(s, node) THEN <<node, offset>>
  ELSE LET next == nextText(s, node, TRUE)
       IN IF next = Null THEN <<node, length(s, node)>>
          ELSE moveAheadNoBreak(s, next, offset - length(s, node))

\* moveAhead charging one unit for every leaf boundary
RECURSIVE moveAheadAlwaysBreak(_, _, _)
moveAheadAlwaysBreak(s, node, offset) ==
  IF offset <= length(s, node) THEN <<node, offset>>
  ELSE LET next == nextText(s, node, TRUE)
       IN IF next = Null THEN <<node, length(s, node)>>
          ELSE moveAheadAlwaysBreak(s, next, offset - 1 - length(s, node))

RECURSIVE moveAhead(_, _, _)
moveAhead(s, node, offset) ==
  IF offset <= length(s, node) THEN <<node, offset>>
  ELSE LET next == nextText(s, node, TRUE)
       IN IF next = Null THEN <<node, length(s, node)>>
          ELSE moveAhead(s, next,
                 (IF ~siblings(s, next, node) THEN offset - 1 ELSE offset)
                 - length(s, node))

movePoint(s, node, offset, delta) ==
  IF node = Null THEN <<Null, offset>>
  ELSE LET back == moveBack(s, node, offset + delta)
       IN moveAhead(s, back[1], back[2])

\* move(deltaStart): deltaEnd omitted
move1(s, deltaStart) ==
  LET a == movePoint(s, s.start, s.startOfs, deltaStart)
  IN set(s, a[1], a[2], a[1], a[2])

\* move(deltaStart, deltaEnd)
move(s, deltaStart, deltaEnd) ==
  LET a == movePoint(s, s.start, s.startOfs, deltaStart)
      b == movePoint(s, s.end, s.endOfs, deltaEnd)
  IN set(s, a[1], a[2], b[1], b[2])

(***************************************************************************)
(* save / restore: the stack holds one tuple per point; id tells two       *)
(* pushes of the same tuple object (a cursor) from two equal tuples.       *)
(***************************************************************************)
Abs(p, id) == [node |-> p[1], ofs |-> p[2], id |-> id]

\* save() pushing the point of a collapsed selection once
saveOnce(s) ==
  LET a == absPoint(s, s.start, s.startOfs)
      n == Len(s.stack)
  IN IF collapsed(s)
     THEN [s EXCEPT !.stack = @ \o <<Abs(a, n + 1)>>]
     ELSE [s EXCEPT !.stack =
             @ \o <<Abs(a, n + 1), Abs(absPoint(s, s.end, s.endOfs), n + 2)>>]

save(s) ==
  LET a == absPoint(s, s.start, s.startOfs)
      n == Len(s.stack)
  IN IF collapsed(s)
     THEN [s EXCEPT !.stack = @ \o <<Abs(a, n + 1), Abs(a, n + 1)>>]
     ELSE [s EXCEPT !.stack =
             @ \o <<Abs(a, n + 1), Abs(absPoint(s, s.end, s.endOfs), n + 2)>>]

restore(s) ==
  IF Len(s.stack) = 0 THEN s
  ELSE
    LET n == Len(s.stack)
        absEnd == s.stack[n]
        absStart == IF n > 1 THEN s.stack[n - 1] ELSE Abs(<<Null, 0>>, 0)
        p == [s EXCEPT !.stack = SubSeq(@, 1, IF n > 1 THEN n - 2 ELSE 0)]
    IN \* absStart[0].removed || absEnd[0].removed
       IF absStart.node = Null THEN throw(p)
       ELSE IF s.cont[absStart.node].removed THEN set(p, Null, 0, Null, 0)
       ELSE IF absEnd.node = Null THEN throw(p)
       ELSE IF s.cont[absEnd.node].removed THEN set(p, Null, 0, Null, 0)
       ELSE IF absStart.id = absEnd.id
         THEN LET r == relPoint(p, absStart.node, absStart.ofs)
              IN setCursor(p, r[1], r[2])
         ELSE LET a == relPoint(p, absStart.node, absStart.ofs)
                  b == relPoint(p, absEnd.node, absEnd.ofs)
              IN setEnd(setStart(p, a[1], a[2]), b[1], b[2])

(***************************************************************************)
(* sort                                                                    *)
(***************************************************************************)
reversed(s) ==
  IF ~valid(s) THEN FALSE
  ELSE (s.start = s.end /\ s.startOfs > s.endOfs) \/ compare(s, s.start, s.end) > 0

\* sort swapping the nodes and leaving the offsets where they are
sortNodesOnly(s) ==
  IF reversed(s) THEN [s EXCEPT !.start = s.end, !.end = s.start] ELSE s

sort(s) ==
  IF reversed(s)
  THEN [s EXCEPT !.start = s.end, !.end = s.start,
                 !.startOfs = s.endOfs, !.endOfs = s.startOfs]
  ELSE s

(***************************************************************************)
(* trim / wordWrap                                                         *)
(***************************************************************************)
\* trim() retrieving the start edge back as it does the end edge
trimStartBack(s) ==
  IF ~valid(s) THEN s
  ELSE
    LET prev == previousText(s, s.end, TRUE)
        s1 == IF s.endOfs = 0 /\ prev # Null THEN setEnd(s, prev, -1) ELSE s
        before == previousText(s1, s1.start, TRUE)
    IN IF collapsed(s1) THEN s1
       ELSE IF s1.startOfs = 0 /\ before # Null
            THEN setStart(s1, before, -1)
            ELSE s1

\* trim() without the special case of a selection collapsed by its first step
trimNoSpecialCase(s) ==
  IF ~valid(s) THEN s
  ELSE
    LET prev == previousText(s, s.end, TRUE)
        s1 == IF s.endOfs = 0 /\ prev # Null THEN setEnd(s, prev, -1) ELSE s
        next == nextText(s1, s1.start, TRUE)
    IN IF s1.startOfs = length(s1, s1.start) /\ next # Null
       THEN setStart(s1, next, 0)
       ELSE s1

trim(s) ==
  IF ~valid(s) THEN s
  ELSE
    LET prev == previousText(s, s.end, TRUE)
        s1 == IF s.endOfs = 0 /\ prev # Null THEN setEnd(s, prev, -1) ELSE s
        next == nextText(s1, s1.start, TRUE)
    IN IF collapsed(s1) THEN s1
       ELSE IF s1.startOfs = length(s1, s1.start) /\ next # Null
            THEN setStart(s1, next, 0)
            ELSE s1

\* \w of the regular expression
isWord(ch) == ch # " " /\ ch # "\n"

\* the offsets /\b/g matches in value
boundaries(value) ==
  { i \in 0..Len(value) :
      (i > 0 /\ isWord(value[i])) # (i < Len(value) /\ isWord(value[i + 1])) }

Max(S) == CHOOSE x \in S : \A y \in S : y <= x
Min(S) == CHOOSE x \in S : \A y \in S : x <= y

\* edges() looking for the boundaries strictly before and after the index
edgesStrict(value, index) ==
  LET b == boundaries(value)
  IN << Max({0} \cup { o \in b : o < index }),
        Min({Len(value)} \cup { o \in b : o > index }) >>

edges(value, index) ==
  LET b == boundaries(value)
  IN << Max({0} \cup { o \in b : o <= index }),
        Min({Len(value)} \cup { o \in b : o >= index }) >>

wordWrap(s) ==
  IF ~valid(s) THEN s
  ELSE
    LET e == edges(s.leaf[s.start].value, s.startOfs)
    IN IF collapsed(s) THEN set(s, s.start, e[1], s.start, e[2])
       ELSE mark([s EXCEPT !.startOfs = e[1],
                           !.endOfs = edges(s.leaf[s.end].value, s.endOfs)[2]],
                 TRUE)

(***************************************************************************)
(* Host synchronisation.  A host point is a text node inside the element   *)
(* of a leaf (k = "text"), the element of a container (k = "elem") or no   *)
(* node at all (k = "null"); the host renders every leaf as an element     *)
(* holding one text node with the leaf's value.                            *)
(***************************************************************************)
\* root.walkTree(id): the attached node with that identifier
walkTree(s, id) ==
  IF id \in 1..Len(s.leaf) /\ ~s.leaf[id].removed THEN id ELSE Null

RECURSIVE domLoop(_, _, _, _)
domLoop(s, c, offset, i) ==
  LET content == s.cont[c].content
  IN IF i > Len(content) THEN <<Null, offset>>
     ELSE IF offset <= length(s, content[i])
          THEN <<content[i], IF empty(s, content[i]) THEN 0 ELSE offset>>
          ELSE domLoop(s, c, offset - length(s, content[i]), i + 1)

fromDom(s, p) ==
  IF p.k = "null" THEN <<Null, 0>>
  ELSE IF p.k = "text"
       THEN LET txt == walkTree(s, p.id)
            IN IF txt = Null THEN <<Null, 0>>
               ELSE <<txt, IF empty(s, txt) THEN 0 ELSE p.ofs>>
       ELSE IF Len(s.cont[p.id].content) = 0 THEN <<Null, 0>>
            ELSE domLoop(s, p.id, p.ofs, 1)

\* query(from): r.kind is the host's answer ("nodoc": from is null; "none": no
\* range; "cursor": a collapsed range at r.a; "range": from r.a to r.b); r.throwAt
\* is where the host raises (0: nowhere; 1: before the first point is mapped;
\* 2: after the start is set, before the end is)
query(s, r) ==
  IF r.kind = "nodoc" THEN s
  ELSE IF r.throwAt = 1 THEN mark(s, FALSE)
  ELSE IF r.kind = "none" THEN mark(setCursor(s, Null, 0), FALSE)
  ELSE IF r.kind = "cursor"
       THEN LET a == fromDom(s, r.a) IN mark(setCursor(s, a[1], a[2]), FALSE)
  ELSE LET a == fromDom(s, r.a)
           s1 == setStart(s, a[1], a[2])
       IN IF r.throwAt = 2 THEN mark(s1, FALSE)
          ELSE LET b == fromDom(s1, r.b)
               IN mark(sort(setEnd(s1, b[1], b[2])), FALSE)

\* range.setStart / setEnd raise on an offset outside the text node
domRangeOk(s) ==
  /\ s.startOfs \in 0..length(s, s.start)
  /\ s.endOfs \in 0..length(s, s.end)

\* apply(to): h.doc is whether to is given; h.throwAt is where the host raises
\* (0: nowhere; 1: reading the selection; 2: after the ranges were removed)
apply(s, h) ==
  IF ~h.doc \/ ~valid(s) THEN s
  ELSE IF h.throwAt = 1 THEN mark(s, FALSE)
  ELSE IF h.throwAt = 2 \/ ~domRangeOk(s)
       THEN mark([s EXCEPT !.hostRange = <<>>], FALSE)
  ELSE mark([s EXCEPT !.hostRange = <<s.start, s.startOfs, s.end, s.endOfs>>], FALSE)

(***************************************************************************)
(* The primitives of the tree the editing operations call.  Each leaves    *)
(* the node it returns, if any, in s.ret.                                  *)
(***************************************************************************)
Clamp(x, lo, hi) == IF x < lo THEN lo ELSE IF x > hi THEN hi ELSE x

Slice(v, a, b) == SubSeq(v, Clamp(a, 0, Len(v)) + 1, Clamp(b, 0, Len(v)))

contentOf(s, n) == s.cont[s.leaf[n].container].content

\* leaf.first / leaf.last
first(s, n) == Len(contentOf(s, n)) > 0 /\ contentOf(s, n)[1] = n
last(s, n) == Len(contentOf(s, n)) > 0 /\ contentOf(s, n)[Len(contentOf(s, n))] = n

InsertAt(seq, i, x) == SubSeq(seq, 1, i - 1) \o <<x>> \o SubSeq(seq, i, Len(seq))

Without(seq, S) == SelectSeq(seq, LAMBDA x : x \notin S)

\* leaf.insert(char, offset)
insertText(s, n, ch, ofs) ==
  LET v == s.leaf[n].value
  IN [call(s, n) EXCEPT !.leaf[n].value = Slice(v, 0, ofs) \o ch \o Slice(v, ofs, Len(v))]

\* leaf.extract(from, to): takes the text between the offsets away
extract(s, n, from, to) ==
  LET v == s.leaf[n].value
  IN [call(s, n) EXCEPT !.leaf[n].value = Slice(v, 0, from) \o Slice(v, to, Len(v))]

\* leaf.cut(from, to): keeps the text between the offsets only
cut(s, n, from, to) ==
  LET v == s.leaf[n].value
  IN [call(s, n) EXCEPT
        !.leaf[n].value = Slice(v, from, IF to = Omitted THEN Len(v) ELSE to)]

\* a new text leaf placed at index i of the content of n's container
createTextAt(s, n, i, v, st) ==
  LET c == s.leaf[n].container
      id == Len(s.leaf) + 1
  IN IF IndexOf(s.cont[c].content, n) = 0
     THEN [call(s, n) EXCEPT
             !.leaf = Append(@, [NewLeaf(v, "text", st, c) EXCEPT !.removed = TRUE]),
             !.ret = id]
     ELSE [s EXCEPT !.leaf = Append(@, NewLeaf(v, "text", st, c)),
                    !.cont[c].content = InsertAt(@, i, id),
                    !.ret = id]

\* leaf.createTextPrev(value, style)
createTextPrev(s, n, v, st) == createTextAt(s, n, IndexOf(contentOf(s, n), n), v, st)

\* leaf.createTextNext(value, style)
createTextNext(s, n, v, st) == createTextAt(s, n, IndexOf(contentOf(s, n), n) + 1, v, st)

\* the leaves of S leave the tree; a container left without content leaves it too
detach(s, S) ==
  LET gone == { c \in 1..Len(s.cont) :
                  /\ ~s.cont[c].removed
                  /\ Len(s.cont[c].content) > 0
                  /\ \A i \in 1..Len(s.cont[c].content) : s.cont[c].content[i] \in S }
  IN [s EXCEPT
        !.leaf = [n \in 1..Len(s.leaf) |->
                    IF n \in S THEN [s.leaf[n] EXCEPT !.removed = TRUE] ELSE s.leaf[n]],
        !.cont = [c \in 1..Len(s.cont) |->
                    [s.cont[c] EXCEPT !.content = Without(@, S),
                                      !.removed = @ \/ c \in gone]],
        !.doc = Without(@, gone)]

\* leaf.join(other): other's text is appended to this leaf and other leaves the tree
join(s, a, b) ==
  IF a = b THEN call(s, a)
  ELSE detach([call(s, a) EXCEPT !.leaf[a].value = @ \o s.leaf[b].value], {b})

\* leaf.merge(other): the leaves between the two leave the tree, what follows
\* other in its container moves behind this leaf, and the two become one
merge(s, a, b) ==
  LET f == Flat(s)
      i == IndexOf(f, a)
      j == IndexOf(f, b)
      ca == s.leaf[a].container
      cb == s.leaf[b].container
      rest == SubSeq(s.cont[cb].content, IndexOf(s.cont[cb].content, b) + 1,
                     Len(s.cont[cb].content))
      between == { f[k] : k \in (i + 1)..(j - 1) }
      moved == IF ca = cb THEN s
               ELSE [s EXCEPT
                       !.cont[cb].content = SubSeq(@, 1, Len(@) - Len(rest)),
                       !.cont[ca].content =
                           SubSeq(@, 1, IndexOf(@, a)) \o <<b>> \o rest,
                       !.leaf = [n \in 1..Len(s.leaf) |->
                                   IF n = b \/ \E k \in 1..Len(rest) : rest[k] = n
                                   THEN [s.leaf[n] EXCEPT !.container = ca]
                                   ELSE s.leaf[n]]]
  IN IF i = 0 \/ j = 0 \/ i >= j THEN call(call(s, a), b)
     ELSE join(detach(moved, between), a, b)

\* leaf.split(from, to): the leaf is cut at the offsets falling inside it and the
\* leaf holding the text from `from` (up to `to`) is returned
splitLeaf(s, n, from, to) ==
  LET v == s.leaf[n].value
      lo == Clamp(from, 0, Len(v))
      hi == IF to = Omitted THEN Len(v) ELSE Clamp(to, lo, Len(v))
      c == s.leaf[n].container
      i == IndexOf(s.cont[c].content, n)
      twin(x) == [s.leaf[n] EXCEPT !.value = x]
      s1 == IF lo = 0 THEN [s EXCEPT !.ret = n]
            ELSE [s EXCEPT !.leaf = Append([@ EXCEPT ![n].value = Slice(v, 0, lo)],
                                           twin(Slice(v, lo, Len(v)))),
                           !.cont[c].content = InsertAt(@, i + 1, Len(s.leaf) + 1),
                           !.ret = Len(s.leaf) + 1]
      m == s1.ret
      k == IndexOf(s1.cont[c].content, m)
  IN IF i = 0 THEN [call(s, n) EXCEPT !.ret = n]
     ELSE IF hi = Len(v) THEN s1
     ELSE [s1 EXCEPT !.leaf = Append([@ EXCEPT ![m].value = Slice(v, lo, hi)],
                                     twin(Slice(v, hi, Len(v)))),
                     !.cont[c].content = InsertAt(@, k + 1, Len(s1.leaf) + 1)]

\* leaf.break(): the leaf and the siblings following it move to a new container
\* placed right after theirs; returns the leaf
breakAt(s, n) ==
  LET c == s.leaf[n].container
      i == IndexOf(s.cont[c].content, n)
      tail == SubSeq(s.cont[c].content, i, Len(s.cont[c].content))
      id == Len(s.cont) + 1
      d == IndexOf(s.doc, c)
  IN IF i = 0 \/ d = 0 THEN [call(s, n) EXCEPT !.ret = n]
     ELSE [s EXCEPT
             !.cont = Append([@ EXCEPT ![c].content = SubSeq(@, 1, i - 1)],
                             [s.cont[c] EXCEPT !.content = tail]),
             !.leaf = [x \in 1..Len(s.leaf) |->
                         IF \E k \in 1..Len(tail) : tail[k] = x
                         THEN [s.leaf[x] EXCEPT !.container = id]
                         ELSE s.leaf[x]],
             !.doc = InsertAt(@, d + 1, id),
             !.ret = n]

sameAttributes(s, a, b) ==
  /\ s.leaf[a].type = s.leaf[b].type
  /\ s.leaf[a].style = s.leaf[b].style
  /\ s.leaf[a].url = s.leaf[b].url

\* container.defrag(): adjacent leaves sharing the same attributes become one
RECURSIVE defragFrom(_, _, _)
defragFrom(s, c, i) ==
  LET content == s.cont[c].content
  IN IF i >= Len(content) THEN s
     ELSE IF sameAttributes(s, content[i], content[i + 1])
          THEN defragFrom(join(s, content[i], content[i + 1]), c, i)
          ELSE defragFrom(s, c, i + 1)

defragContainer(s, c) == defragFrom(s, c, 1)

\* climb() found no ancestor
NoBlock == "none"

isList(t) == t \in {"bulleted", "numbered"}

RECURSIVE lastIndex(_, _)
lastIndex(seq, S) ==
  IF Len(seq) = 0 THEN 0
  ELSE IF seq[Len(seq)] \in S THEN Len(seq)
  ELSE lastIndex(SubSeq(seq, 1, Len(seq) - 1), S)

\* leaf.climb(...types): the type of the nearest ancestor block of one of the types
climb(s, n, types) ==
  LET b == s.cont[s.leaf[n].container].blocks
      i == lastIndex(b, types)
  IN IF i = 0 THEN NoBlock ELSE b[i]

\* container.indent(type): one more block of the type around the container
indentContainer(s, c, t) ==
  [s EXCEPT !.cont[c].blocks = Append(@, t),
            !.cont[c].type = IF isList(t) /\ @ = "paragraph" THEN "item" ELSE @]

\* container.unindent(type): the nearest block of the type around it goes
unindentContainer(s, c, t) ==
  LET b == s.cont[c].blocks
      i == lastIndex(b, {t})
      nb == SubSeq(b, 1, i - 1) \o SubSeq(b, i + 1, Len(b))
  IN IF i = 0 THEN s
     ELSE [s EXCEPT !.cont[c].blocks = nb,
                    !.cont[c].type =
                       IF @ = "item" /\ lastIndex(nb, {"bulleted", "numbered"}) = 0
                       THEN "paragraph" ELSE @]

\* container.level
level(s, c) == Len(s.cont[c].blocks)

(***************************************************************************)
(* Editing operations.                                                     *)
(***************************************************************************)
\* the part of delete() past the single / multi cut
deleteMerge(s) ==
  LET prev == previousText(s, s.start, FALSE)
      s1 == IF empty(s, s.start) /\ prev # Null THEN [s EXCEPT !.start = prev] ELSE s
      next == nextText(s1, s1.end, FALSE)
      s2 == IF empty(s1, s1.end) /\ next # Null THEN [s1 EXCEPT !.end = next] ELSE s1
      ofs == length(s2, s2.start)
  IN setCursor(merge(s2, s2.start, s2.end), s2.start, ofs)

\* delete() leaving the cursor at the end of what it removed
deleteCollapseToEnd(s) ==
  IF ~valid(s) THEN s
  ELSE IF single(s)
       THEN LET s1 == extract(s, s.start, s.startOfs, s.endOfs)
            IN IF ~empty(s1, s1.start) THEN setCursor(s1, s1.end, s1.endOfs)
               ELSE deleteMerge(s1)
       ELSE deleteMerge(cut(cut(s, s.start, 0, s.startOfs), s.end, s.endOfs, Omitted))

delete(s) ==
  IF ~valid(s) THEN s
  ELSE IF single(s)
       THEN LET s1 == extract(s, s.start, s.startOfs, s.endOfs)
            IN IF ~empty(s1, s1.start) THEN collapse(s1) ELSE deleteMerge(s1)
       ELSE deleteMerge(cut(cut(s, s.start, 0, s.startOfs), s.end, s.endOfs, Omitted))

\* setCursor(node, 0), node being what the last primitive returned
setCursorRet(s) == setCursor(s, s.ret, 0)

\* insert(): on the end edge of a link, jump on the following text or a new one
insertJump(s) ==
  IF s.leaf[s.start].type = "link" /\ s.startOfs = length(s, s.start)
  THEN setCursorRet(IF nextText(s, s.start, FALSE) # Null
                    THEN [s EXCEPT !.ret = nextText(s, s.start, FALSE)]
                    ELSE createTextNext(s, s.start, <<>>, {}))
  ELSE s

\* insert(): this.start.insert(char, this.startOfs); return this.move(char.length)
insertChar(s, ch) ==
  IF s.start = Null THEN throw(s)
  ELSE move1(insertText(s, s.start, ch, s.startOfs), Len(ch))

insert(s, ch) ==
  IF ~valid(s) THEN s
  ELSE insertChar(insertJump(IF ~collapsed(s) THEN delete(s) ELSE s), ch)

\* break(): an extra empty text on the start edge
breakPrev(s) ==
  IF first(s, s.start) /\ s.startOfs = 0
  THEN createTextPrev(s, s.start, <<>>, s.leaf[s.start].style) ELSE s

\* break() adding no empty text on the end edge
breakNextNever(s) == s

\* break(): an extra empty text on the end edge
breakNext(s) ==
  IF last(s, s.start) /\ s.startOfs = length(s, s.start)
  THEN createTextNext(s, s.start, <<>>, s.leaf[s.start].style) ELSE s

\* break(): the cursor goes on the right side of the leaf's edge
breakEdge(s) ==
  IF s.startOfs = length(s, s.start)
  THEN setCursor(s, nextText(s, s.start, FALSE), 0) ELSE s

\* break(): .break() of the leaf split() returned
breakRet(s) == breakAt(s, s.ret)

\* break(): this.start.split(this.startOfs).break(), then setCursor(node, 0)
breakSplit(s) ==
  IF s.start = Null THEN throw(s)
  ELSE setCursorRet(breakRet(splitLeaf(s, s.start, s.startOfs, Omitted)))

\* break(): past the deletion of the selection
breakFrom(s, newline) ==
  IF newline \/ (s.leaf[s.start].type = "link" /\ s.startOfs < length(s, s.start))
  THEN move1(insertText(s, s.start, <<"\n">>, s.startOfs), 1)
  ELSE breakSplit(breakEdge(breakNext(breakPrev(s))))

break(s, newline) ==
  IF ~valid(s) THEN s
  ELSE breakFrom(IF ~collapsed(s) THEN delete(s) ELSE s, newline)

split(s) ==
  IF ~valid(s) THEN s
  ELSE IF single(s)
       THEN LET s1 == splitLeaf(s, s.start, s.startOfs, s.endOfs)
            IN set(s1, s1.ret, 0, s1.ret, -1)
       ELSE LET s1 == splitLeaf(s, s.start, s.startOfs, Omitted)
                s2 == splitLeaf(s1, s1.end, 0, s1.endOfs)
            IN set(s2, s1.ret, 0, s2.ret, -1)

\* what the callback handed to nodes() does to one leaf
onLeaf(s, n, f) ==
  IF f.do = "style" THEN [call(s, n) EXCEPT !.leaf[n].style = f.style]
  ELSE IF f.do = "format" THEN [call(s, n) EXCEPT !.leaf[n].style = @ \cup f.style]
  ELSE IF f.do = "unformat" THEN [call(s, n) EXCEPT !.leaf[n].style = @ \ f.style]
  ELSE [call(s, n) EXCEPT !.leaf[n].type = "text", !.leaf[n].url = Null]

\* the loop of nodes() going on past the end leaf
RECURSIVE nodesFromToLast(_, _, _)
nodesFromToLast(s, node, f) ==
  IF node = Null THEN s
  ELSE LET s1 == onLeaf(s, node, f)
       IN nodesFromToLast(s1, nextText(s1, node, TRUE), f)

RECURSIVE nodesFrom(_, _, _)
nodesFrom(s, node, f) ==
  IF node = Null \/ compare(s, node, s.end) > 0 THEN s
  ELSE LET s1 == onLeaf(s, node, f)
       IN nodesFrom(s1, nextText(s1, node, TRUE), f)

nodes(s, f) == IF ~valid(s) THEN s ELSE nodesFrom(s, s.start, f)

\* what the callback handed to containers() does to one container
onContainer(s, c, f) ==
  IF f.do = "defrag" THEN defragContainer(s, c)
  ELSE IF f.do = "indent" THEN indentContainer(s, c, f.type)
  ELSE IF f.do = "unindent" THEN unindentContainer(s, c, f.type)
  ELSE IF s.cont[c].type # "cell" THEN indentContainer(s, c, f.type) ELSE s

\* container.compare(leaf) < 0: the container starts before the leaf
startsBefore(s, c, n) ==
  LET i == IndexOf(s.doc, c)
      j == IndexOf(s.doc, s.leaf[n].container)
  IN ~s.leaf[n].removed /\ i <= j

RECURSIVE containersFrom(_, _, _)
containersFrom(s, c, f) ==
  IF c = Null \/ ~startsBefore(s, c, s.end) THEN s
  ELSE LET s1 == onContainer(s, c, f)
           content == s1.cont[c].content
           next == IF Len(content) = 0 THEN Null
                   ELSE nextText(s1, content[Len(content)], TRUE)
       IN IF Len(content) = 0 THEN throw(s1)
          ELSE containersFrom(s1, IF next = Null THEN Null ELSE s1.leaf[next].container, f)

containers(s, f) ==
  IF ~valid(s) THEN s ELSE containersFrom(s, s.leaf[s.start].container, f)

defrag(s) ==
  IF ~valid(s) THEN s
  ELSE LET s1 == containers(save(s), [do |-> "defrag"])
           s2 == restore(s1)
       IN IF s1.raised THEN s1
          ELSE IF s2.raised THEN s2
          ELSE trim(s2)

\* set style(style)
setStyle(s, st) ==
  IF ~valid(s) THEN s
  ELSE defrag(nodes(split(trim(IF collapsed(s) THEN wordWrap(s) ELSE s)),
                    [do |-> "style", style |-> st]))

format(s, st, remove) ==
  IF ~valid(s) THEN s
  ELSE defrag(nodes(split(trim(IF collapsed(s) THEN wordWrap(s) ELSE s)),
                    [do |-> IF remove THEN "unformat" ELSE "format", style |-> st]))

\* get style
style(s) == IF valid(s) THEN s.leaf[s.start].style ELSE {}

toggleFormat(s, st) == format(s, {st}, st \in style(s))

unlink(s) ==
  IF ~valid(s) THEN s ELSE defrag(nodes(s, [do |-> "unlink"]))

RECURSIVE joinFrom(_, _)
joinFrom(s, node) ==
  IF node = Null \/ compare(s, node, s.end) > 0 THEN s
  ELSE LET s1 == join(s, s.start, node)
       IN IF node = s.end THEN s1 ELSE joinFrom(s1, nextText(s1, s1.start, TRUE))

\* link(): join multiple nodes when needed
linkJoin(s) ==
  IF multi(s) THEN joinFrom(s, nextText(s, s.start, TRUE)) ELSE s

\* link(): this.start.link(url); return this.set(this.start, 0, this.start, -1)
linkNode(s, url) ==
  set([call(s, s.start) EXCEPT !.leaf[s.start].type = "link",
                               !.leaf[s.start].url = url],
      s.start, 0, s.start, -1)

link(s, url) ==
  IF url = Null THEN unlink(s)
  ELSE IF ~valid(s) THEN s
  ELSE linkNode(linkJoin(split(trim(IF collapsed(s) THEN wordWrap(s) ELSE s))), url)

unindent(s) ==
  IF s.start = Null THEN throw(s)
  ELSE LET t == climb(s, s.start, {"blockquote", "bulleted", "numbered"})
           s1 == containers(s, [do |-> "unindent", type |-> t])
       IN IF t = NoBlock THEN s
          ELSE IF s1.raised THEN s1 ELSE mark(s1, TRUE)

indent(s) ==
  IF ~valid(s) THEN s
  ELSE LET t == climb(s, s.start, {"bulleted", "numbered"})
           s1 == containers(s, [do |-> "indent", type |-> t])
       IN IF t = NoBlock THEN s
          ELSE IF s1.raised THEN s1 ELSE mark(s1, TRUE)

toggleList(s, type) ==
  IF ~valid(s) THEN s
  ELSE LET t == climb(s, s.start, {"bulleted", "numbered"})
           s1 == IF t # NoBlock THEN containers(s, [do |-> "unindent", type |-> t]) ELSE s
           s2 == containers(s1, [do |-> "list", type |-> type])
       IN IF s1.raised THEN s1
          ELSE IF t = type THEN mark(s1, TRUE)
          ELSE IF s2.raised THEN s2 ELSE mark(s2, TRUE)

\* the loop of toggleQuote() over the top level blocks from the start's to the end's
RECURSIVE quoteFrom(_, _)
quoteFrom(s, d) ==
  IF d = 0 \/ d > Len(s.doc) \/ ~startsBefore(s, s.doc[d], s.end) THEN s
  ELSE quoteFrom([s EXCEPT !.cont[s.doc[d]].blocks = <<"blockquote">> \o @], d + 1)

toggleQuote(s) ==
  IF ~valid(s) THEN s
  ELSE LET s1 == containers(s, [do |-> "unindent", type |-> "blockquote"])
       IN IF climb(s, s.start, {"blockquote"}) # NoBlock
          THEN (IF s1.raised THEN s1 ELSE mark(s1, TRUE))
          ELSE mark(quoteFrom(s, IndexOf(s.doc, s.leaf[s.start].container)), TRUE)

\* belongsTo() looking at the start node only
belongsToStartOnly(s, type, sameBlock) ==
  IF ~valid(s) THEN FALSE
  ELSE IF type = "document" THEN TRUE
  ELSE IF type \in {"text", "link"} THEN s.leaf[s.start].type = type
  ELSE IF type \in {"item", "cell"}
       THEN s.cont[s.leaf[s.start].container].type = type
  ELSE IF type \in {"blockquote", "bulleted", "numbered", "row", "table"}
       THEN climb(s, s.start, {type}) # NoBlock
  ELSE FALSE

\* belongsTo() answering for the document before it looks at the selection
belongsToDocumentFirst(s, type, sameBlock) ==
  IF type = "document" THEN TRUE
  ELSE IF ~valid(s) THEN FALSE
  ELSE IF type \in {"text", "link"} THEN single(s) /\ s.leaf[s.start].type = type
  ELSE IF type \in {"item", "cell"}
       THEN contained(s) /\ s.cont[s.leaf[s.start].container].type = type
  ELSE IF type \in {"blockquote", "bulleted", "numbered", "row", "table"}
       THEN IF climb(s, s.start, {type}) = NoBlock THEN FALSE
            ELSE IF single(s) THEN TRUE
            ELSE IF contained(s) THEN TRUE
            ELSE climb(s, s.end, {type}) # NoBlock /\ sameBlock
  ELSE FALSE

\* belongsTo(type); sameBlock tells whether the ancestors of the type the start
\* and the end of a selection across containers climb to are the same node
belongsTo(s, type, sameBlock) ==
  IF ~valid(s) THEN FALSE
  ELSE IF type = "document" THEN TRUE
  ELSE IF type \in {"text", "link"} THEN single(s) /\ s.leaf[s.start].type = type
  ELSE IF type \in {"item", "cell"}
       THEN contained(s) /\ s.cont[s.leaf[s.start].container].type = type
  ELSE IF type \in {"blockquote", "bulleted", "numbered", "row", "table"}
       THEN IF climb(s, s.start, {type}) = NoBlock THEN FALSE
            ELSE IF single(s) THEN TRUE
            ELSE IF contained(s) THEN TRUE
            ELSE climb(s, s.end, {type}) # NoBlock /\ sameBlock
  ELSE FALSE

\* leaf.fragment(endLeaf): detached clones of the leaves from the leaf through
\* endLeaf in document order
fragment(s, a, b) ==
  LET f == Flat(s)
      i == IndexOf(f, a)
      j == IndexOf(f, b)
  IN IF i = 0 \/ j < i THEN <<>>
     ELSE [k \in 1..(j - i + 1) |->
             [value |-> s.leaf[f[i + k - 1]].value,
              type |-> s.leaf[f[i + k - 1]].type,
              style |-> s.leaf[f[i + k - 1]].style,
              url |-> s.leaf[f[i + k - 1]].url]]

\* copy(): the first (and last) leaf of the fragment cut to the offsets
copyCut(s, frag) ==
  IF single(s)
  THEN [frag EXCEPT ![1].value = Slice(@, s.startOfs, s.endOfs)]
  ELSE [frag EXCEPT ![1].value = Slice(@, s.startOfs, Len(@)),
                    ![Len(frag)].value = Slice(@, 0, s.endOfs)]

\* copy(): past wordWrap() and trim(); the fragment is left in ret
copyFrom(s) ==
  IF fragment(s, s.start, s.end) = <<>> THEN [throw(s) EXCEPT !.ret = <<>>]
  ELSE IF whole(s) THEN [s EXCEPT !.ret = fragment(s, s.start, s.end)]
  ELSE [s EXCEPT !.ret = copyCut(s, fragment(s, s.start, s.end))]

copy(s) ==
  IF ~valid(s) THEN [s EXCEPT !.ret = <<>>]
  ELSE copyFrom(trim(IF collapsed(s) THEN wordWrap(s) ELSE s))

(***************************************************************************)
(* The state machine.  op names the last call, arg its argument and pre    *)
(* the state it was made in (calls = the calls made so far).               *)
(***************************************************************************)
Cur ==
  [start |-> start, startOfs |-> startOfs, end |-> end, endOfs |-> endOfs,
   modified |-> modified, stack |-> stack, leaf |-> leaf, cont |-> cont,
   doc |-> doc, hostRange |-> hostRange, raised |-> FALSE, stale |-> {},
   ret |-> Null]

\* the calls made so far, counted up to MaxCalls
Calls ==
  IF op = "new" THEN 0
  ELSE IF pre.calls + 1 < MaxCalls THEN pre.calls + 1 ELSE MaxCalls

Snapshot ==
  [start |-> start, startOfs |-> startOfs, end |-> end, endOfs |-> endOfs,
   modified |-> modified, stack |-> stack, leaf |-> leaf, cont |-> cont,
   doc |-> doc, hostRange |-> hostRange, op |-> op, arg |-> arg,
   calls |-> Calls]

Commit(name, a, s) ==
  /\ start' = s.start
  /\ startOfs' = s.startOfs
  /\ end' = s.end
  /\ endOfs' = s.endOfs
  /\ modified' = s.modified
  /\ stack' = s.stack
  /\ leaf' = s.leaf
  /\ cont' = s.cont
  /\ doc' = s.doc
  /\ hostRange' = s.hostRange
  /\ raised' = s.raised
  /\ stale' = s.stale
  /\ op' = name
  /\ arg' = a
  /\ pre' = Snapshot

NoArg == [none |-> TRUE]

\* the documents a selection is attached to: two leaves in a paragraph followed
\* by a link in a list item
Doc(a, b, c) ==
  [leaf |-> << NewLeaf(Str(a), "text", {}, 1), NewLeaf(Str(b), "text", {}, 1),
               [NewLeaf(Str(c), "link", {}, 2) EXCEPT !.url = 1] >>,
   cont |-> << NewCont("paragraph", <<1, 2>>),
               [NewCont("item", <<3>>) EXCEPT !.blocks = <<"bulleted">>] >>,
   doc |-> <<1, 2>>]

Docs == { Doc(a, b, c) : a, b, c \in 0..MaxLen }

\* the documents of Docs whose leaves are empty, of one character or of MaxLen
WalkDocs == { Doc(a, b, c) : a, b, c \in {0, 1, MaxLen} }

\* one document of Docs, with a character in every leaf
OneDoc == { Doc(1, 1, 1) }

\* the characters of the texts: a word character and a blank
Alphabet == {"a", " "}

\* the texts of up to MaxLen characters
Texts == UNION { [1..n -> Alphabet] : n \in 0..MaxLen }

\* the document of Doc with the given leaf values and leaf types; every link has
\* an url of its own
Tree(v, t) ==
  [leaf |-> [n \in 1..3 |->
               [NewLeaf(v[n], t[n], {}, IF n = 3 THEN 2 ELSE 1)
                  EXCEPT !.url = IF t[n] = "link" THEN n ELSE Null]],
   cont |-> << NewCont("paragraph", <<1, 2>>),
               [NewCont("item", <<3>>) EXCEPT !.blocks = <<"bulleted">>] >>,
   doc |-> <<1, 2>>]

\* the documents of Docs with every text of words and blanks
TextDocs == { Tree(<<u, v, w>>, <<"text", "text", "link">>) : u, v, w \in Texts }

\* the document of two containers, each a paragraph or a table cell and none in a
\* list, with text leaves of the given lengths
CellTree(a, b, c, ct) ==
  [leaf |-> << NewLeaf(Str(a), "text", {}, 1), NewLeaf(Str(b), "text", {}, 1),
               NewLeaf(Str(c), "text", {}, 2) >>,
   cont |-> [k \in 1..2 |->
               [NewCont(ct[k], IF k = 1 THEN <<1, 2>> ELSE <<3>>)
                  EXCEPT !.blocks = IF ct[k] = "cell" THEN <<"table", "row">> ELSE <<>>]],
   doc |-> <<1, 2>>]

CellDocs ==
  { CellTree(a, b, c, ct) :
      a, b, c \in 0..MaxLen, ct \in [1..2 -> {"paragraph", "cell"}] }

\* the documents of Docs with every leaf a text or a link
LinkDocs ==
  { Tree(<<Str(a), Str(b), Str(c)>>, t) :
      a, b, c \in 0..MaxLen, t \in [1..3 -> {"text", "link"}] }

\* the points of document d a selection end can be put at
Points(d) ==
  {<<Null, 0>>} \cup
  UNION { { <<n, o>> : o \in 0..Len(d.leaf[n].value) } : n \in 1..Len(d.leaf) }

\* a selection just constructed and attached to a document
Init ==
  \E d \in Docs :
    /\ leaf = d.leaf /\ cont = d.cont /\ doc = d.doc
    /\ start = Null /\ startOfs = 0 /\ end = Null /\ endOfs = 0
    /\ modified = FALSE /\ stack = <<>> /\ hostRange = <<>>
    /\ raised = FALSE /\ stale = {}
    /\ op = "new" /\ arg = NoArg /\ pre = [calls |-> 0]

\* a selection attached to a document and placed by set()
InitSet ==
  \E d \in Docs : \E a, b \in Points(d) :
    /\ leaf = d.leaf /\ cont = d.cont /\ doc = d.doc
    /\ start = a[1] /\ startOfs = a[2] /\ end = b[1] /\ endOfs = b[2]
    /\ modified = TRUE /\ stack = <<>> /\ hostRange = <<>>
    /\ raised = FALSE /\ stale = {}
    /\ op = "new" /\ arg = NoArg /\ pre = [calls |-> 0]

\* twelve distinct characters
Letters == <<"a", "b", "c", "d", "e", "f", "g", "h", "i", "j", "k", "l">>

\* the first k characters of the n-th leaf, no character in two leaves
LettersOf(n, k) == [i \in 1..k |-> Letters[(n - 1) * MaxLen + i]]

\* the documents of Docs with texts and links of distinct characters
LetterDocs ==
  { Tree(<<LettersOf(1, a), LettersOf(2, b), LettersOf(3, c)>>, ty) :
      a, b, c \in 0..MaxLen, ty \in [1..3 -> {"text", "link"}] }

\* the documents of two texts and a link of distinct characters, every leaf
\* plain or italic
StyledDocs ==
  { [d EXCEPT !.leaf = [n \in 1..3 |-> [d.leaf[n] EXCEPT !.style = st[n]]]] :
      d \in { Tree(<<LettersOf(1, a), LettersOf(2, b), LettersOf(3, c)>>,
                    <<"text", "text", "link">>) : a, b, c \in 0..MaxLen },
      st \in [1..3 -> {{}, {"italic"}}] }

\* a cursor placed by setCursor() in a document of D
InitCursorIn(D) ==
  \E d \in D : \E a \in Points(d) \ {<<Null, 0>>} :
    /\ leaf = d.leaf /\ cont = d.cont /\ doc = d.doc
    /\ start = a[1] /\ startOfs = a[2] /\ end = a[1] /\ endOfs = a[2]
    /\ modified = TRUE /\ stack = <<>> /\ hostRange = <<>>
    /\ raised = FALSE /\ stale = {}
    /\ op = "new" /\ arg = NoArg /\ pre = [calls |-> 0]

\* a selection placed by set() in a document of D
InitSetIn(D) ==
  \E d \in D : \E a, b \in Points(d) :
    /\ leaf = d.leaf /\ cont = d.cont /\ doc = d.doc
    /\ start = a[1] /\ startOfs = a[2] /\ end = b[1] /\ endOfs = b[2]
    /\ modified = TRUE /\ stack = <<>> /\ hostRange = <<>>
    /\ raised = FALSE /\ stale = {}
    /\ op = "new" /\ arg = NoArg /\ pre = [calls |-> 0]

CurPoints ==
  {<<Null, 0>>} \cup
  UNION { { <<n, o>> : o \in 0..Len(leaf[n].value) } : n \in 1..Len(leaf) }

Deltas == (-MaxDelta)..MaxDelta

\* deltaEnd === undefined: a value that is no delta
NoDelta == MaxDelta + 1

Set == \E a, b \in CurPoints :
  Commit("set", [a |-> a, b |-> b], set(Cur, a[1], a[2], b[1], b[2]))

Collapse == Commit("collapse", NoArg, collapse(Cur))

Move1 == \E d \in Deltas : Commit("move", [d |-> d, e |-> NoDelta], move1(Cur, d))

Move == \E d, e \in Deltas : Commit("move", [d |-> d, e |-> e], move(Cur, d, e))

Save == Len(stack) < 2 * MaxSaves /\ Commit("save", NoArg, save(Cur))

Restore == Commit("restore", NoArg, restore(Cur))

Sort == Commit("sort", NoArg, sort(Cur))

Trim == Commit("trim", NoArg, trim(Cur))

WordWrap == Commit("wordWrap", NoArg, wordWrap(Cur))

\* the points of the host document
HostPoints ==
  {[k |-> "null", id |-> Null, ofs |-> 0]}
  \cup { [k |-> "text", id |-> n, ofs |-> o] :
            n \in 1..Len(leaf), o \in 0..MaxLen }
  \cup { [k |-> "elem", id |-> c, ofs |-> o] :
            c \in { x \in 1..Len(cont) : ~cont[x].removed }, o \in 0..(MaxLen + 1) }

HostPointOk(p) == IF p.k = "text" THEN p.ofs <= Len(leaf[p.id].value) ELSE TRUE

\* the host raises before any point is mapped whatever the range is, and after
\* the start is set whatever the end is
Query ==
  \/ \E k \in {"nodoc", "none", "cursor", "range"}, t \in {0, 1} :
       LET r == [kind |-> k, throwAt |-> t]
       IN (k \in {"nodoc", "none"} \/ t = 1) /\ Commit("query", r, query(Cur, r))
  \/ \E p \in HostPoints :
       LET r == [kind |-> "cursor", a |-> p, throwAt |-> 0]
       IN HostPointOk(p) /\ Commit("query", r, query(Cur, r))
  \/ \E p \in HostPoints :
       LET r == [kind |-> "range", a |-> p, throwAt |-> 2]
       IN HostPointOk(p) /\ Commit("query", r, query(Cur, r))
  \/ \E p, q \in HostPoints :
       LET r == [kind |-> "range", a |-> p, b |-> q, throwAt |-> 0]
       IN HostPointOk(p) /\ HostPointOk(q) /\ p # q /\ Commit("query", r, query(Cur, r))

Apply == \E d \in BOOLEAN, t \in {0, 1, 2} :
  LET h == [doc |-> d, throwAt |-> t] IN Commit("apply", h, apply(Cur, h))

Chars == { <<"a">>, <<" ">> }

Insert == \E ch \in Chars : Commit("insert", [char |-> ch], insert(Cur, ch))

Delete == Commit("delete", NoArg, delete(Cur))

\* insert(ch) at the cursor, then delete() over the character it typed
insertThenDelete(s, ch) ==
  delete(set(insert(s, ch), s.start, s.startOfs, s.start, s.startOfs + Len(ch)))

InsertThenDelete == \E ch \in Chars :
  Commit("insertThenDelete", [char |-> ch], insertThenDelete(Cur, ch))

Break == \E nl \in BOOLEAN : Commit("break", [newline |-> nl], break(Cur, nl))

Split == Commit("split", NoArg, split(Cur))

Defrag == Commit("defrag", NoArg, defrag(Cur))

Format == \E rm \in BOOLEAN :
  Commit("format", [style |-> {"bold"}, remove |-> rm], format(Cur, {"bold"}, rm))

Link == \E url \in {Null, 2} : Commit("link", [url |-> url], link(Cur, url))

Unlink == Commit("unlink", NoArg, unlink(Cur))

Indent == Commit("indent", NoArg, indent(Cur))

Unindent == Commit("unindent", NoArg, unindent(Cur))

ToggleList == \E t \in {"bulleted", "numbered"} :
  Commit("toggleList", [type |-> t], toggleList(Cur, t))

\* toggleList(type) called twice in succession
toggleListTwice(s, type) == toggleList(toggleList(s, type), type)

ToggleListTwice == \E t \in {"bulleted", "numbered"} :
  Commit("toggleListTwice", [type |-> t], toggleListTwice(Cur, t))

ToggleQuote == Commit("toggleQuote", NoArg, toggleQuote(Cur))

\* the node types belongsTo() is asked about
NodeTypes == {"document", "text", "link", "item", "cell", "bulleted", "paragraph"}

\* belongsTo(type) changes nothing and returns ret
BelongsTo == \E ty \in NodeTypes, same \in BOOLEAN :
  Commit("belongsTo", [type |-> ty, ret |-> belongsTo(Cur, ty, same)], Cur)

\* copy() returns the fragment ret, or null on an invalid selection
Copy ==
  Commit("copy", [ret |-> copy(Cur).ret, null |-> ~valid(Cur)], copy(Cur))

\* movePoint() entered for one endpoint: offset += delta.  seen holds the leaves
\* the walk visited in its current direction, stalled tells that an iteration
\* did not go to a strictly earlier (later) leaf
walkFrom(d, e, point, node, offset, delta, moved) ==
  [d |-> d, e |-> e, point |-> point, dir |-> "back", node |-> node,
   offset |-> IF node = Null THEN offset ELSE offset + delta,
   seen |-> {node}, stalled |-> FALSE, first |-> moved]

\* an iteration of the backward loop of movePoint() that stays on its leaf
backStepStay(s, w) ==
  LET prev == previousText(s, w.node, TRUE)
  IN IF prev = Null THEN [w EXCEPT !.offset = 0]
     ELSE [w EXCEPT
             !.offset = (IF ~siblings(s, prev, w.node) THEN @ + 1 ELSE @)
                        + length(s, prev),
             !.stalled = TRUE]

\* one iteration of the backward loop of movePoint()
backStep(s, w) ==
  LET prev == previousText(s, w.node, TRUE)
  IN IF prev = Null THEN [w EXCEPT !.offset = 0]
     ELSE [w EXCEPT
             !.offset = (IF ~siblings(s, prev, w.node) THEN @ + 1 ELSE @)
                        + length(s, prev),
             !.node = prev,
             !.seen = @ \cup {prev},
             !.stalled = @ \/ prev \in w.seen \/ compare(s, prev, w.node) >= 0]

\* one iteration of the forward loop of movePoint()
aheadStep(s, w) ==
  LET next == nextText(s, w.node, TRUE)
      seen == IF w.dir = "back" THEN {w.node} ELSE w.seen
  IN IF next = Null THEN [w EXCEPT !.offset = length(s, w.node), !.dir = "ahead"]
     ELSE [w EXCEPT
             !.offset = (IF ~siblings(s, next, w.node) THEN @ - 1 ELSE @)
                        - length(s, w.node),
             !.node = next,
             !.dir = "ahead",
             !.seen = seen \cup {next},
             !.stalled = @ \/ next \in seen \/ compare(s, next, w.node) <= 0]

\* both loops of movePoint() are over for the walk w
walkOver(s, w) ==
  IF w.node = Null THEN TRUE
  ELSE w.offset >= 0 /\ w.offset <= length(s, w.node)

\* a step of a call of move() in progress: only the walk changes
Walk(w) ==
  /\ arg' = w
  /\ UNCHANGED <<start, startOfs, end, endOfs, modified, stack, leaf, cont,
                 doc, hostRange, raised, stale, op, pre>>

\* move(deltaStart, deltaEnd) is called: movePoint() is entered for the start
MoveCall == \E d, e \in Deltas :
  /\ op = "new"
  /\ Commit("moving",
            walkFrom(d, e, "start", start, startOfs, d, <<Null, 0>>), Cur)

\* while(offset < 0)
WalkBack ==
  /\ op = "moving"
  /\ arg.node # Null /\ arg.dir = "back" /\ arg.offset < 0
  /\ Walk(backStep(Cur, arg))

\* while(offset > node.length)
WalkAhead ==
  /\ op = "moving"
  /\ IF arg.node = Null \/ arg.offset < 0 THEN FALSE
     ELSE /\ arg.offset > length(Cur, arg.node)
          /\ Walk(aheadStep(Cur, arg))

\* movePoint() returns for the start and is entered for the end
WalkEnd ==
  /\ op = "moving" /\ arg.point = "start"
  /\ walkOver(Cur, arg)
  /\ Walk(walkFrom(arg.d, arg.e, "end", end, endOfs, arg.e,
                   <<arg.node, arg.offset>>))

\* movePoint() returns for the end and move() sets the selection
MoveReturn ==
  /\ op = "moving" /\ arg.point = "end"
  /\ walkOver(Cur, arg)
  /\ start' = arg.first[1] /\ end' = arg.node
  /\ startOfs' = (IF arg.first[1] # Null /\ arg.first[2] < 0
                  THEN length(Cur, arg.first[1]) ELSE arg.first[2])
  /\ endOfs' = (IF arg.node # Null /\ arg.offset < 0
                THEN length(Cur, arg.node) ELSE arg.offset)
  /\ modified' = TRUE
  /\ op' = "move"
  /\ arg' = [d |-> arg.d, e |-> arg.e]
  /\ UNCHANGED <<stack, leaf, cont, doc, hostRange, raised, stale, pre>>

\* the editing session detaches a leaf from the tree
removeLeaf(s, n) == detach(s, {n})

\* the editing session detaches a container from the tree; its leaves are
\* flagged with it when the tree flags whole subtrees (deep)
removeContainer(s, c, deep) ==
  [s EXCEPT !.cont[c].removed = TRUE,
            !.doc = Without(@, {c}),
            !.leaf = [n \in 1..Len(s.leaf) |->
                        IF deep /\ s.leaf[n].container = c
                        THEN [s.leaf[n] EXCEPT !.removed = TRUE] ELSE s.leaf[n]]]

Removed ==
  Cardinality({ n \in 1..Len(leaf) : leaf[n].removed })
  + Cardinality({ c \in 1..Len(cont) : cont[c].removed })

RemoveLeaf == \E n \in 1..Len(leaf) :
  /\ ~leaf[n].removed
  /\ Removed < MaxRemoved
  /\ Commit("removeLeaf", [node |-> n], removeLeaf(Cur, n))

RemoveContainer == \E c \in 1..Len(cont), deep \in BOOLEAN :
  /\ ~cont[c].removed
  /\ Removed < MaxRemoved
  /\ Commit("removeContainer", [node |-> c, deep |-> deep], removeContainer(Cur, c, deep))

\* the editing session defragments a container: adjacent leaves with the same
\* attributes become one
ContainerDefrag == \E c \in 1..Len(cont) :
  /\ ~cont[c].removed
  /\ Commit("containerDefrag", [node |-> c], defragContainer(Cur, c))

\* the editing session splits a leaf in two at an offset inside it
LeafSplit == \E n \in 1..Len(leaf) : \E o \in 1..(Len(leaf[n].value) - 1) :
  /\ ~leaf[n].removed
  /\ Commit("leafSplit", [node |-> n, ofs |-> o], splitLeaf(Cur, n, o, Omitted))

Positional == Set \/ Collapse \/ Move1 \/ Move \/ Sort \/ Trim \/ WordWrap

Editing ==
  \/ Insert \/ Delete \/ Break \/ Split \/ Defrag \/ Format \/ Link \/ Unlink
  \/ Indent \/ Unindent \/ ToggleList \/ ToggleQuote

External == RemoveLeaf \/ RemoveContainer

\* the whole engine, from construction
Next ==
  /\ Calls < MaxCalls
  /\ \/ Positional
     \/ Save \/ Restore \/ Query \/ Apply
     \/ Editing
     \/ External

Spec == Init /\ [][Next]_vars

\* one call of sort(), query() or apply() on a placed selection
NextSync == op = "new" /\ (Sort \/ Query \/ Apply)

SpecSync == InitSet /\ [][NextSync]_vars

\* one call of move() on a placed selection
NextMove == op = "new" /\ (Move1 \/ Move)

SpecMove == InitSet /\ [][NextMove]_vars

\* save() and restore() on a placed selection while the session removes nodes
NextSave == Save \/ Restore \/ RemoveLeaf \/ RemoveContainer

SpecSave == InitSet /\ [][NextSave]_vars

\* one call of a mutating operation on a placed selection
NextMutate == op = "new" /\ (Trim \/ WordWrap \/ Editing)

SpecMutate == InitSet /\ [][NextMutate]_vars

\* one editing call on a placed selection, the session having removed a node
NextEdit ==
  \/ op \in {"new", "removeLeaf", "removeContainer"} /\ Editing
  \/ op = "new" /\ External

SpecEdit == InitSet /\ [][NextEdit]_vars

\* insert() at a cursor, alone and followed by delete() over what it typed
NextType == op = "new" /\ (Insert \/ InsertThenDelete)

SpecType == InitCursorIn(TextDocs) /\ [][NextType]_vars

\* insert() at a cursor of a document whose leaves are texts and links
NextLinkType == op = "new" /\ Insert

SpecLinkType == InitCursorIn(LinkDocs) /\ [][NextLinkType]_vars

\* defrag() called twice in succession on a placed selection
NextDefrag == (op = "new" \/ (op = "defrag" /\ pre.op = "new")) /\ Defrag

SpecDefrag == InitSetIn(LinkDocs) /\ [][NextDefrag]_vars

\* wordWrap() at a cursor in a text of words and blanks
NextWrap == op = "new" /\ WordWrap

SpecWrap == InitCursorIn(TextDocs) /\ [][NextWrap]_vars

\* toggleList() called once and called twice on a selection of paragraphs and
\* table cells that are in no list
NextToggle == op = "new" /\ (ToggleList \/ ToggleListTwice)

SpecToggle == InitSetIn(CellDocs) /\ [][NextToggle]_vars

\* one call of belongsTo() on a placed selection
NextBelongs == op = "new" /\ BelongsTo

SpecBelongs == InitSetIn(LinkDocs) /\ [][NextBelongs]_vars

\* a cursor, saved or not, synchronised with the host, then placed, moved and
\* restored
NextFlag ==
  \/ op = "new" /\ (Save \/ Query \/ Apply)
  \/ op = "save" /\ pre.op = "new" /\ (Query \/ Apply)
  \/ op \in {"query", "apply"} /\ (Set \/ Collapse \/ Move1 \/ Move \/ Restore)
  \/ op = "collapse" /\ pre.op \in {"query", "apply"} /\ (Move1 \/ Save \/ Restore)

SpecFlag == InitCursorIn(OneDoc) /\ [][NextFlag]_vars

\* a placed selection is saved, the session merges or splits leaves, and the
\* selection is restored
NextSurvive ==
  \/ op = "new" /\ Save
  \/ op = "save" /\ (ContainerDefrag \/ LeafSplit)
  \/ op \in {"containerDefrag", "leafSplit"} /\ Restore

SpecSurvive == InitSet /\ [][NextSurvive]_vars

\* delete() on a placed selection
NextDelete == op = "new" /\ Delete

SpecDelete == InitSetIn(LetterDocs) /\ [][NextDelete]_vars

\* insert() on a placed selection
NextInsert == op = "new" /\ Insert

SpecInsert == InitSetIn(LetterDocs) /\ [][NextInsert]_vars

\* break() at a cursor
NextBreak == op = "new" /\ Break

SpecBreak == InitCursorIn(LetterDocs) /\ [][NextBreak]_vars

\* split() on a placed selection
NextSplit == op = "new" /\ Split

SpecSplit == InitSetIn(LetterDocs) /\ [][NextSplit]_vars

\* format() on a placed selection
NextFormat == op = "new" /\ Format

SpecFormat == InitSetIn(StyledDocs) /\ [][NextFormat]_vars

\* link() on a placed selection
NextLink == op = "new" /\ Link

SpecLink == InitSetIn(LetterDocs) /\ [][NextLink]_vars

\* trim() on a placed selection
NextTrim == op = "new" /\ Trim

SpecTrim == InitSet /\ [][NextTrim]_vars

\* copy() on a placed selection
NextCopy == op = "new" /\ Copy

SpecCopy == InitSetIn(LetterDocs) /\ [][NextCopy]_vars

\* up to four calls on a placed selection: save(), restore() or defrag(), with
\* the session removing a node before or after the first of them, and restore()
\* last
NextStack ==
  \/ op = "new" /\ (Save \/ Restore \/ Defrag \/ RemoveLeaf \/ RemoveContainer)
  \/ /\ op = "save" /\ pre.op = "new"
     /\ (Restore \/ Defrag \/ RemoveLeaf \/ RemoveContainer)
  \/ /\ op \in {"defrag", "removeLeaf", "removeContainer"}
     /\ pre.op \in {"new", "save"}
     /\ (Save \/ Restore \/ Defrag)
  \/ /\ op \in {"save", "restore", "defrag"}
     /\ pre.op \in {"defrag", "removeLeaf", "removeContainer"}
     /\ Restore

SpecStack == InitSet /\ [][NextStack]_vars

\* one call of move(deltaStart, deltaEnd), an iteration of the loops of
\* movePoint() at a time; a call in progress goes on
NextWalk == MoveCall \/ WalkBack \/ WalkAhead \/ WalkEnd \/ MoveReturn

SpecWalk == InitCursorIn(WalkDocs) /\ [][NextWalk]_vars /\ WF_vars(NextWalk)

(***************************************************************************)
(* Properties.                                                             *)
(***************************************************************************)
InBounds(s) ==
  /\ s.startOfs \in 0..length(s, s.start)
  /\ s.endOfs \in 0..length(s, s.end)

\* the leaf is part of the tree
Attached(s, n) ==
  /\ n # Null
  /\ ~s.leaf[n].removed
  /\ ~s.cont[s.leaf[n].container].removed

\* start precedes or equals end in document order
Ordered(s) ==
  /\ compare(s, s.start, s.end) <= 0
  /\ s.start = s.end => s.startOfs <= s.endOfs

\* C1: after sort() on a valid selection, and after query() on a non-collapsed
\* host range whose two points map to leaves, start precedes or equals end in
\* document order (same leaf: startOfs <= endOfs; otherwise start.compare(end) < 0)
C1_SortOrders ==
  (/\ op = "sort" \/ (op = "query" /\ arg.kind = "range" /\ arg.throwAt = 0)
   /\ valid(Cur))
  => Ordered(Cur)

\* sort() has swapped the offsets of a selection reversed within one leaf
C1_Witness ==
  /\ op = "sort"
  /\ valid(Cur)
  /\ start = end
  /\ pre.startOfs > pre.endOfs
  /\ startOfs = pre.endOfs /\ endOfs = pre.startOfs

MutatingOps ==
  {"insert", "delete", "break", "split", "trim", "wordWrap", "defrag", "format",
   "link", "unlink", "indent", "unindent", "toggleList", "toggleQuote"}

SameSelection(s) ==
  /\ start = s.start /\ startOfs = s.startOfs
  /\ end = s.end /\ endOfs = s.endOfs

SameTree(s) == leaf = s.leaf /\ cont = s.cont /\ doc = s.doc

\* C2: a mutating operation called on an invalid selection (start or end unset)
\* raises nothing and leaves start, startOfs, end, endOfs and the tree unchanged
C2_InvalidIsNoOp ==
  (op \in MutatingOps /\ ~valid(pre))
  => (~raised /\ SameSelection(pre) /\ SameTree(pre))

StaleEndpoint(s) == s.leaf[s.start].removed \/ s.leaf[s.end].removed

\* C3: after the session removed the leaf of an endpoint, the next insert, delete,
\* break, split, format or link calls no primitive on the removed leaf and leaves
\* the selection empty
C3_StaleIsNeutralized ==
  (/\ op \in {"insert", "delete", "break", "split", "format", "link"}
   /\ pre.op \in {"removeLeaf", "removeContainer"}
   /\ valid(pre)
   /\ StaleEndpoint(pre))
  => (stale = {} /\ start = Null /\ end = Null)

\* C4: when the host raises during query() or apply(), nothing propagates and the
\* selection is an empty cursor on return
C4_HostFailureEmpties ==
  (\/ op = "query" /\ arg.kind # "nodoc" /\ arg.throwAt # 0
   \/ op = "apply" /\ arg.doc /\ valid(pre) /\ arg.throwAt # 0)
  => (~raised /\ start = Null /\ end = Null)

\* the two absolute points restore() pops in state s
AbsStart(s) == s.stack[Len(s.stack) - 1]
AbsEnd(s) == s.stack[Len(s.stack)]

\* C5: when the container recorded by save() for the start or for the end has been
\* removed since, restore() leaves the selection empty
C5_RemovedContainerEmpties ==
  (/\ op = "restore"
   /\ pre.op = "removeContainer"
   /\ Len(pre.stack) >= 2
   /\ pre.arg.node \in {AbsStart(pre).node, AbsEnd(pre).node})
  => (~raised /\ start = Null /\ end = Null)

\* C6: restore() never raises, and after a save() that recorded a null container
\* (invalid selection, removed leaf) it leaves the selection empty
C6_RestoreNeverRaises ==
  /\ op = "restore" => ~raised
  /\ (/\ op = "restore"
      /\ Len(pre.stack) >= 2
      /\ (AbsStart(pre).node = Null \/ AbsEnd(pre).node = Null))
     => (start = Null /\ end = Null)

\* C7: save() immediately followed by restore() on a valid in-bounds selection of
\* an untouched tree leaves start, startOfs, end and endOfs as they were
C7_SaveRestoreRoundTrip ==
  (/\ op = "restore"
   /\ pre.op = "save"
   /\ valid(pre)
   /\ Attached(pre, pre.start) /\ Attached(pre, pre.end)
   /\ InBounds(pre))
  => SameSelection(pre)

\* the cursor sat at the end of a leaf whose next leaf lies in another container,
\* and move(+1) was called
AcrossContainers ==
  /\ op = "move" /\ arg.d = 1 /\ arg.e = NoDelta
  /\ collapsed(pre)
  /\ pre.startOfs = length(pre, pre.start)
  /\ nextText(pre, pre.start, TRUE) # Null
  /\ ~siblings(pre, pre.start, nextText(pre, pre.start, TRUE))

\* C8 as stated: move(+1) from (A, A.length) yields (B, 1), B being the next leaf,
\* in another container
C8_AcrossYieldsOne ==
  AcrossContainers
  => (/\ start = nextText(pre, pre.start, TRUE) /\ startOfs = 1
      /\ end = start /\ endOfs = 1)

\* C8 amended: move(+1) from (A, A.length) yields (B, 0), B being the next leaf,
\* in another container: the boundary takes the one unit of the move
C8_AcrossYieldsZero ==
  AcrossContainers
  => (/\ start = nextText(pre, pre.start, TRUE) /\ startOfs = 0
      /\ end = start /\ endOfs = 0)

\* move(+1) took the cursor from the end of a paragraph's last leaf, with text
\* before it, to the non-empty first leaf of the next container
C8_Witness ==
  /\ AcrossContainers
  /\ pre.startOfs > 0
  /\ start # pre.start
  /\ length(Cur, start) > 0

\* C9: for leaves A, B adjacent in one container, move(d) from the cursor (A, o)
\* with A.length < o + d <= A.length + B.length yields (B, o + d - A.length)
C9_WithinContainer ==
  (/\ op = "move" /\ arg.e = NoDelta
   /\ collapsed(pre)
   /\ pre.startOfs \in 0..length(pre, pre.start)
   /\ nextText(pre, pre.start, TRUE) # Null
   /\ siblings(pre, pre.start, nextText(pre, pre.start, TRUE))
   /\ length(pre, pre.start) < pre.startOfs + arg.d
   /\ pre.startOfs + arg.d
        <= length(pre, pre.start) + length(pre, nextText(pre, pre.start, TRUE)))
  => (/\ start = nextText(pre, pre.start, TRUE)
      /\ startOfs = pre.startOfs + arg.d - length(pre, pre.start)
      /\ end = start /\ endOfs = startOfs)

\* move(+2) took the cursor from inside a leaf into the middle of its sibling
C9_Witness ==
  /\ op = "move" /\ arg.e = NoDelta /\ arg.d = 2
  /\ collapsed(pre)
  /\ pre.startOfs = 1 /\ length(pre, pre.start) = 2
  /\ start = nextText(pre, pre.start, TRUE)
  /\ siblings(pre, pre.start, start)
  /\ startOfs = 1 /\ length(Cur, start) = 2

\* C10: move(deltaStart) without deltaEnd on a non-collapsed selection moves the
\* start and the end by deltaStart each
C10_MoveShiftsBoth ==
  (/\ op = "move" /\ arg.e = NoDelta
   /\ valid(pre) /\ ~collapsed(pre))
  => (/\ <<start, startOfs>> = movePoint(pre, pre.start, pre.startOfs, arg.d)
      /\ <<end, endOfs>> = movePoint(pre, pre.end, pre.endOfs, arg.d))

\* a cursor inside the text of a leaf, not on the trailing edge of a link
TypingCursor(s) ==
  /\ valid(s) /\ collapsed(s) /\ InBounds(s)
  /\ length(s, s.start) > 0
  /\ ~(s.leaf[s.start].type = "link" /\ s.startOfs = length(s, s.start))

\* the text of v with ch typed at offset o
Typed(v, o, ch) == SubSeq(v, 1, o) \o ch \o SubSeq(v, o + 1, Len(v))

\* C11: at a cursor (L, o) in a non-empty leaf, insert(c) puts c at o and the
\* cursor at (L, o + 1), and a delete() over (L, o)..(L, o + 1) after it restores
\* the tree and leaves the cursor collapsed at (L, o)
C11_InsertDeleteInverse ==
  /\ (op = "insert" /\ TypingCursor(pre))
     => (/\ leaf[pre.start].value
              = Typed(pre.leaf[pre.start].value, pre.startOfs, arg.char)
         /\ start = pre.start /\ startOfs = pre.startOfs + 1
         /\ end = start /\ endOfs = startOfs)
  /\ (op = "insertThenDelete" /\ TypingCursor(pre))
     => (SameTree(pre) /\ SameSelection(pre) /\ ~raised)

\* a blank was typed between two word characters and deleted again
C11_Witness ==
  /\ op = "insertThenDelete" /\ TypingCursor(pre)
  /\ arg.char = <<" ">>
  /\ pre.leaf[pre.start].value = <<"a", "a">> /\ pre.startOfs = 1
  /\ leaf[start].value = <<"a", "a">> /\ startOfs = 1

\* a cursor on the trailing edge of a link
LinkEdgeCursor(s) ==
  /\ valid(s) /\ collapsed(s)
  /\ s.leaf[s.start].type = "link"
  /\ s.startOfs = length(s, s.start)

\* C12: insert(c) with the cursor on the trailing edge of a link changes the text
\* of no link leaf, also when the next leaf of the container is a link
C12_LinkTextUntouched ==
  (op = "insert" /\ LinkEdgeCursor(pre))
  => /\ \A n \in 1..Len(pre.leaf) :
          pre.leaf[n].type = "link" => leaf[n].value = pre.leaf[n].value
     /\ \A n \in 1..Len(leaf) :
          n > Len(pre.leaf) => leaf[n].type # "link"

\* the leaves of the tree as a reader sees them: per container of the document,
\* the value and the attributes of its leaves in order
Leaves(s) ==
  [d \in 1..Len(s.doc) |->
     [k \in 1..Len(s.cont[s.doc[d]].content) |->
        LET n == s.cont[s.doc[d]].content[k]
        IN [value |-> s.leaf[n].value, type |-> s.leaf[n].type,
            style |-> s.leaf[n].style, url |-> s.leaf[n].url]]]

\* C13: a second defrag() right after a first one on a valid selection leaves the
\* number of leaves, their values and their attributes as the first one left them
C13_DefragIdempotent ==
  (op = "defrag" /\ pre.op = "defrag" /\ valid(pre))
  => (Leaves(Cur) = Leaves(pre) /\ ~raised)

\* the first defrag() joined the two texts of the paragraph, the second ran on
\* the joined leaf
C13_Witness ==
  /\ op = "defrag" /\ pre.op = "defrag" /\ valid(pre)
  /\ pre.leaf[2].removed
  /\ Len(pre.leaf[1].value) = 2 * MaxLen
  /\ Len(cont[1].content) = 1
  /\ start = 1 /\ end = 3

\* the k-th character of v is a word character (no character is none)
WordAt(v, k) == k \in 1..Len(v) /\ v[k] \notin {" ", "\n"}

\* the class of the characters around index o of v changes
WordBoundary(v, o) == WordAt(v, o) # WordAt(v, o + 1)

\* C14: wordWrap() on a cursor at index i of a leaf of value v selects [b, a] in
\* that leaf, b the greatest word boundary <= i (0 if none) and a the least word
\* boundary >= i (the length of v if none)
C14_WordWrapEdges ==
  (op = "wordWrap" /\ valid(pre) /\ collapsed(pre) /\ InBounds(pre))
  => LET v == pre.leaf[pre.start].value
         i == pre.startOfs
     IN /\ start = pre.start /\ end = pre.start
        /\ startOfs \in 0..i /\ endOfs \in i..Len(v)
        /\ WordBoundary(v, startOfs) \/ startOfs = 0
        /\ WordBoundary(v, endOfs) \/ endOfs = Len(v)
        /\ \A o \in (startOfs + 1)..i : ~WordBoundary(v, o)
        /\ \A o \in i..(endOfs - 1) : ~WordBoundary(v, o)
        /\ SameTree(pre) /\ ~raised

\* the cursor inside the word "aa" was widened to the word
C14_Witness ==
  /\ op = "wordWrap" /\ collapsed(pre)
  /\ pre.leaf[pre.start].value = <<"a", "a">> /\ pre.startOfs = 1
  /\ start = end /\ startOfs = 0 /\ endOfs = 2

\* the containers the selection spans: from the start's to the end's
Spanned(s) ==
  { c \in 1..Len(s.cont) :
      /\ IndexOf(s.doc, c) > 0
      /\ IndexOf(s.doc, s.leaf[s.start].container) <= IndexOf(s.doc, c)
      /\ IndexOf(s.doc, c) <= IndexOf(s.doc, s.leaf[s.end].container) }

InNoList(s, c) == lastIndex(s.cont[c].blocks, {"bulleted", "numbered"}) = 0

\* C15: toggleList('bulleted') called twice on a valid selection whose containers
\* are in no list leaves every spanned container, table cells included, with the
\* type and the indent blocks it had
C15_ToggleListTwice ==
  (/\ op = "toggleListTwice" /\ arg.type = "bulleted"
   /\ valid(pre)
   /\ \A c \in Spanned(pre) : InNoList(pre, c))
  => \A c \in Spanned(pre) :
       cont[c].type = pre.cont[c].type /\ cont[c].blocks = pre.cont[c].blocks

\* C16: belongsTo('link') returns true exactly when the selection is valid, its
\* start and end are the same leaf and that leaf is a link; it returns false on
\* every selection of several leaves, all links or not
C16_BelongsToLink ==
  (op = "belongsTo" /\ arg.type = "link")
  => (arg.ret <=> (/\ valid(pre)
                   /\ pre.start = pre.end
                   /\ pre.leaf[pre.start].type = "link"))

\* belongsTo('link') returned false on a selection from a link to the next link
C16_Witness ==
  /\ op = "belongsTo" /\ arg.type = "link"
  /\ pre.start = 1 /\ pre.end = 2
  /\ pre.leaf[1].type = "link" /\ pre.leaf[2].type = "link"
  /\ ~arg.ret

\* query() returned a selection, or apply() ran on a valid selection
Synchronised ==
  \/ op = "query" /\ arg.kind # "nodoc"
  \/ op = "apply" /\ arg.doc /\ valid(pre)

\* restore() in state s pops a saved selection whose two containers were recorded
PopsRecorded(s) ==
  /\ Len(s.stack) >= 2
  /\ AbsStart(s).node # Null /\ AbsEnd(s).node # Null

RECURSIVE CharsOf(_, _, _)
CharsOf(s, content, k) ==
  IF k = 0 THEN 0 ELSE CharsOf(s, content, k - 1) + length(s, content[k])

\* the absolute position of the point (n, o): its container and the number of
\* characters before it in that container
AbsPos(s, n, o) ==
  LET c == s.leaf[n].container
  IN [node |-> c,
      ofs |-> CharsOf(s, s.cont[c].content, IndexOf(s.cont[c].content, n) - 1) + o]

\* the absolute position a stack entry records
Recorded(e) == [node |-> e.node, ofs |-> e.ofs]

Placed(s) ==
  /\ valid(s) /\ InBounds(s)
  /\ Attached(s, s.start) /\ Attached(s, s.end)

\* C18: save() records the absolute position of each endpoint (container and
\* characters before it), and when the session then merges or splits leaves
\* without changing the text, restore() puts each endpoint at the recorded
\* absolute position, on a leaf that is part of the tree
C18_SurvivesMergeSplit ==
  /\ (op = "save" /\ Placed(pre))
     => (/\ Recorded(AbsStart(Cur)) = AbsPos(pre, pre.start, pre.startOfs)
         /\ Recorded(AbsEnd(Cur)) = AbsPos(pre, pre.end, pre.endOfs))
  /\ (/\ op = "restore"
      /\ pre.op \in {"containerDefrag", "leafSplit"}
      /\ PopsRecorded(pre))
     => (/\ ~raised
         /\ Placed(Cur)
         /\ AbsPos(Cur, start, startOfs) = Recorded(AbsStart(pre))
         /\ AbsPos(Cur, end, endOfs) = Recorded(AbsEnd(pre)))

\* the end was saved in the second text of the paragraph, the session joined the
\* two texts, and restore() put the end in the joined leaf
C18_Witness ==
  /\ op = "restore" /\ pre.op = "containerDefrag" /\ PopsRecorded(pre)
  /\ leaf[2].removed
  /\ end = 1 /\ endOfs = 2 * MaxLen
  /\ start = 1 /\ startOfs = MaxLen + 1

\* the document position of offset 0 of the k-th leaf of f: the characters
\* before it, and one unit for every container boundary before it
RECURSIVE DocPosAt(_, _, _)
DocPosAt(s, f, k) ==
  IF k <= 1 THEN 0
  ELSE DocPosAt(s, f, k - 1) + length(s, f[k - 1])
       + (IF siblings(s, f[k - 1], f[k]) THEN 0 ELSE 1)

DocPos(s, n, o) == DocPosAt(s, Flat(s), IndexOf(Flat(s), n)) + o

FirstLeaf(s) == Flat(s)[1]

LastLeaf(s) == Flat(s)[Len(Flat(s))]

DocEnd(s) == DocPos(s, LastLeaf(s), length(s, LastLeaf(s)))

\* the point (n, o) is where a walk of delta from (n0, o0) clamps when it
\* leaves the document
Clamped(s, n0, o0, delta, n, o) ==
  /\ DocPos(s, n0, o0) + delta < 0 => (n = FirstLeaf(s) /\ o = 0)
  /\ DocPos(s, n0, o0) + delta > DocEnd(s)
     => (n = LastLeaf(s) /\ o = length(s, LastLeaf(s)))

\* C19: after move(deltaStart, deltaEnd) on a valid selection with in-bounds
\* offsets both endpoints are set with 0 <= offset <= leaf.length, and an endpoint
\* whose walk leaves the document is at offset 0 of the first leaf or at the
\* length of the last leaf
C19_MoveClamps ==
  (/\ op = "move"
   /\ valid(pre) /\ InBounds(pre))
  => (/\ ~raised
      /\ valid(Cur) /\ InBounds(Cur)
      /\ Clamped(pre, pre.start, pre.startOfs, arg.d, start, startOfs)
      /\ arg.e # NoDelta
         => Clamped(pre, pre.end, pre.endOfs, arg.e, end, endOfs))

\* the start walked back past the first leaf and the end walked ahead past the
\* last one
C19_Witness ==
  /\ op = "move" /\ arg.d = -MaxDelta /\ arg.e = MaxDelta
  /\ valid(pre) /\ InBounds(pre)
  /\ DocPos(pre, pre.start, pre.startOfs) = 1
  /\ DocPos(pre, pre.end, pre.endOfs) = DocEnd(pre) - 1
  /\ start = FirstLeaf(Cur) /\ startOfs = 0
  /\ end = LastLeaf(Cur) /\ endOfs = length(Cur, end)

\* the characters of the leaves f[i..], in document order
RECURSIVE TextFrom(_, _, _)
TextFrom(s, f, i) ==
  IF i > Len(f) THEN <<>> ELSE s.leaf[f[i]].value \o TextFrom(s, f, i + 1)

\* the characters of the document
DocText(s) == TextFrom(s, Flat(s), 1)

\* the number of characters of the document before the point (n, o)
CharPos(s, n, o) ==
  Len(DocText(s)) - Len(TextFrom(s, Flat(s), IndexOf(Flat(s), n))) + o

\* delete() emptied the start leaf: nothing of it lies before the selection and
\* nothing of it after
StartEmptied(s) ==
  /\ s.startOfs = 0
  /\ single(s) => s.endOfs = length(s, s.start)

\* what C20 says of delete() from the selection p
DeleteRemovesRange(p) ==
  /\ ~raised /\ stale = {}
  /\ DocText(Cur) =
       Slice(DocText(p), 0, CharPos(p, p.start, p.startOfs))
       \o Slice(DocText(p), CharPos(p, p.end, p.endOfs), Len(DocText(p)))
  /\ collapsed(Cur) /\ InBounds(Cur) /\ Attached(Cur, start)
  /\ CharPos(Cur, start, startOfs) = CharPos(p, p.start, p.startOfs)
  /\ (StartEmptied(p) /\ previousText(p, p.start, FALSE) # Null)
     => (/\ start = previousText(p, p.start, FALSE)
         /\ startOfs = length(p, start))

\* C20: delete() on a valid non-collapsed selection removes exactly the
\* characters between start and end, keeps every other character in order, and
\* leaves a collapsed cursor at the document position of the original start, at
\* the end of the previous leaf when the start leaf was emptied
C20_DeleteRemovesSelection ==
  (/\ op = "delete"
   /\ valid(pre) /\ ~collapsed(pre))
  => DeleteRemovesRange(pre)

\* delete() does what C20 says whenever start precedes end
C20_Ordered ==
  (/\ op = "delete"
   /\ valid(pre) /\ ~collapsed(pre) /\ Ordered(pre))
  => DeleteRemovesRange(pre)

\* what C21 says of insert(arg.char) from the selection p
InsertReplacesRange(p) ==
  /\ ~raised /\ stale = {}
  /\ DocText(Cur) =
       Slice(DocText(p), 0, CharPos(p, p.start, p.startOfs))
       \o arg.char
       \o Slice(DocText(p), CharPos(p, p.end, p.endOfs), Len(DocText(p)))
  /\ collapsed(Cur) /\ InBounds(Cur) /\ Attached(Cur, start)
  /\ startOfs >= Len(arg.char)
  /\ CharPos(Cur, start, startOfs) = CharPos(p, p.start, p.startOfs) + Len(arg.char)

\* C21: insert(s) on a valid selection leaves a collapsed cursor right after the
\* inserted text, and the document text is the prior text with the selected
\* range, if any, replaced by s
C21_InsertReplacesSelection ==
  (op = "insert" /\ valid(pre)) => InsertReplacesRange(pre)

\* insert() does what C21 says whenever start precedes or equals end
C21_Ordered ==
  (op = "insert" /\ valid(pre) /\ Ordered(pre)) => InsertReplacesRange(pre)

\* a cursor placed in a leaf, within its text
PlacedCursor(s) == Placed(s) /\ collapsed(s)

\* break() typed one newline at the cursor p, advanced the cursor by one and
\* created no container
NewlineTyped(p) ==
  /\ DocText(Cur) =
       Slice(DocText(p), 0, CharPos(p, p.start, p.startOfs))
       \o <<"\n">>
       \o Slice(DocText(p), CharPos(p, p.start, p.startOfs), Len(DocText(p)))
  /\ Len(cont) = Len(p.cont) /\ doc = p.doc
  /\ collapsed(Cur) /\ start = p.start /\ startOfs = p.startOfs + 1

\* break() created one container and left the text as it was
ContainerCreated(p) ==
  /\ DocText(Cur) = DocText(p)
  /\ Len(cont) = Len(p.cont) + 1 /\ Len(doc) = Len(p.doc) + 1

StrictlyInsideLink(s) ==
  /\ s.leaf[s.start].type = "link"
  /\ 0 < s.startOfs /\ s.startOfs < length(s, s.start)

\* C22: break(false) types a newline and creates no container only with the
\* cursor strictly inside a link (0 < offset < length), and creates a container
\* at offset 0 of a link, at the trailing edge of a link and in a text;
\* break(true) always types exactly one newline and advances the cursor by one
C22_NewlineStrictlyInsideLink ==
  (op = "break" /\ PlacedCursor(pre))
  => (/\ ~raised
      /\ (arg.newline \/ StrictlyInsideLink(pre)) => NewlineTyped(pre)
      /\ (~arg.newline /\ ~StrictlyInsideLink(pre)) => ContainerCreated(pre))

\* break() does what C22 says but at offset 0 of a link with text, where
\* break(false) types a newline as well
C22_BeforeLinkEnd ==
  (op = "break" /\ PlacedCursor(pre))
  => LET inLink == /\ pre.leaf[pre.start].type = "link"
                   /\ pre.startOfs < length(pre, pre.start)
     IN /\ ~raised
        /\ (arg.newline \/ inLink) => NewlineTyped(pre)
        /\ (~arg.newline /\ ~inLink) => ContainerCreated(pre)

\* the characters of the container c
ContText(s, c) == TextFrom(s, s.cont[c].content, 1)

\* C23: break(false) at a cursor in a text leaves the cursor at offset 0 of the
\* first leaf of a new container placed after the original one; the text before
\* the cursor stays in the original container, the text after it is in the new
\* one, both hold a leaf and the document text is unchanged
C23_BreakSplitsContainer ==
  (/\ op = "break" /\ ~arg.newline
   /\ PlacedCursor(pre)
   /\ pre.leaf[pre.start].type = "text")
  => LET c0 == pre.leaf[pre.start].container
         c1 == leaf[start].container
         k == AbsPos(pre, pre.start, pre.startOfs).ofs
         T == ContText(pre, c0)
     IN /\ ~raised /\ stale = {}
        /\ PlacedCursor(Cur)
        /\ startOfs = 0 /\ first(Cur, start)
        /\ c1 > Len(pre.cont)
        /\ Len(doc) = Len(pre.doc) + 1
        /\ IndexOf(doc, c1) = IndexOf(doc, c0) + 1
        /\ ContText(Cur, c0) = Slice(T, 0, k)
        /\ ContText(Cur, c1) = Slice(T, k, Len(T))
        /\ Len(cont[c0].content) >= 1 /\ Len(cont[c1].content) >= 1
        /\ DocText(Cur) = DocText(pre)
        /\ \A c \in 1..Len(pre.cont) : c # c0 => cont[c] = pre.cont[c]

\* the cursor was at the last position of a paragraph holding text, and is now
\* on an empty leaf alone in the new container
C23_Witness ==
  /\ op = "break" /\ ~arg.newline /\ PlacedCursor(pre)
  /\ pre.start = 2 /\ pre.startOfs = MaxLen /\ length(pre, 2) = MaxLen
  /\ pre.leaf[2].type = "text" /\ length(pre, 1) = MaxLen
  /\ start > Len(pre.leaf) /\ startOfs = 0 /\ length(Cur, start) = 0
  /\ cont[leaf[start].container].content = <<start>>

\* what C24 says of split() from the selection p
SplitIsolates(p) ==
  /\ ~raised /\ stale = {}
  /\ DocText(Cur) = DocText(p)
  /\ Placed(Cur)
  /\ startOfs = 0 /\ endOfs = length(Cur, end)
  /\ CharPos(Cur, start, startOfs) = CharPos(p, p.start, p.startOfs)
  /\ CharPos(Cur, end, endOfs) = CharPos(p, p.end, p.endOfs)
  /\ single(p) => start = end
  /\ multi(p) =>
       /\ leaf[start].value
            = Slice(p.leaf[p.start].value, p.startOfs, length(p, p.start))
       /\ leaf[end].value = Slice(p.leaf[p.end].value, 0, p.endOfs)

RECURSIVE StylesFrom(_, _, _)
StylesFrom(s, f, i) ==
  IF i > Len(f) THEN <<>>
  ELSE [k \in 1..length(s, f[i]) |-> s.leaf[f[i]].style] \o StylesFrom(s, f, i + 1)

\* the style of every character of the document
DocStyles(s) == StylesFrom(s, Flat(s), 1)

\* what C25 says of format(arg.style) from the selection p
FormatsRange(p) ==
  LET from == CharPos(p, p.start, p.startOfs)
      to == CharPos(p, p.end, p.endOfs)
  IN /\ ~raised /\ stale = {}
     /\ DocText(Cur) = DocText(p)
     /\ DocStyles(Cur) =
          [i \in 1..Len(DocText(p)) |->
             IF from < i /\ i <= to THEN DocStyles(p)[i] \cup arg.style
             ELSE DocStyles(p)[i]]

LinksRange(p) ==
  LET from == CharPos(p, p.start, p.startOfs)
      to == CharPos(p, p.end, p.endOfs)
  IN /\ ~raised /\ stale = {}
     /\ single(Cur) /\ Attached(Cur, start)
     /\ startOfs = 0 /\ endOfs = length(Cur, start)
     /\ leaf[start].type = "link" /\ leaf[start].url = arg.url
     /\ leaf[start].value = Slice(DocText(p), from, to)
     /\ CharPos(Cur, start, 0) = from
     /\ DocText(Cur) = DocText(p)

\* C26: link(url) with a url on a valid non-collapsed selection ends with a
\* single-leaf whole selection on a link leaf with that target whose text is the
\* characters that were selected; the joining loop consumes the leaves up to and
\* including the end leaf and then stops
C26_LinkJoinsSelection ==
  (/\ op = "link" /\ arg.url # Null
   /\ valid(pre) /\ ~collapsed(pre))
  => LinksRange(pre)

\* link() does what C26 says whenever start precedes end
C26_Ordered ==
  (/\ op = "link" /\ arg.url # Null
   /\ valid(pre) /\ ~collapsed(pre) /\ Ordered(pre))
  => LinksRange(pre)

\* the leaf before and the leaf after n in the document, Null when none
LeafBefore(s, n) ==
  IF IndexOf(Flat(s), n) > 1 THEN Flat(s)[IndexOf(Flat(s), n) - 1] ELSE Null

LeafAfter(s, n) ==
  IF IndexOf(Flat(s), n) \in 1..(Len(Flat(s)) - 1)
  THEN Flat(s)[IndexOf(Flat(s), n) + 1] ELSE Null

\* the end trim() leaves from the selection p
TrimmedEnd(p) ==
  IF p.endOfs = 0 /\ LeafBefore(p, p.end) # Null
  THEN <<LeafBefore(p, p.end), length(p, LeafBefore(p, p.end))>>
  ELSE <<p.end, p.endOfs>>

\* the start trim() leaves from the selection p
TrimmedStart(p) ==
  IF /\ <<p.start, p.startOfs>> # TrimmedEnd(p)
     /\ p.startOfs = length(p, p.start)
     /\ LeafAfter(p, p.start) # Null
  THEN <<LeafAfter(p, p.start), 0>>
  ELSE <<p.start, p.startOfs>>

\* C27: trim() on a valid selection moves an end at offset 0 to the length of the
\* previous leaf of the document when there is one; then, unless the selection
\* is collapsed, moves a start at its leaf's length to offset 0 of the next leaf
\* when there is one; otherwise the endpoints stay, and the tree is never
\* modified
C27_TrimEdges ==
  (op = "trim" /\ valid(pre))
  => (/\ ~raised /\ stale = {}
      /\ <<end, endOfs>> = TrimmedEnd(pre)
      /\ <<start, startOfs>> = TrimmedStart(pre)
      /\ leaf = pre.leaf /\ cont = pre.cont /\ doc = pre.doc)

\* the selection went from the end of the first leaf to offset 0 of the list
\* item's leaf: both endpoints were pulled onto the second leaf
C27_Witness ==
  /\ op = "trim"
  /\ pre.start = 1 /\ pre.startOfs = MaxLen /\ length(pre, 1) = MaxLen
  /\ pre.end = 3 /\ pre.endOfs = 0 /\ length(pre, 2) = MaxLen
  /\ start = 2 /\ startOfs = 0 /\ end = 2 /\ endOfs = MaxLen

\* C28: trim() never produces a reversed selection: when start precedes or equals
\* end before trim(), a cursor at offset 0 of a leaf that has a preceding leaf
\* included, start precedes or equals end after it
C28_TrimKeepsOrder ==
  (op = "trim" /\ valid(pre) /\ Ordered(pre)) => Ordered(Cur)

\* trim() keeps the order of a selection that is no cursor
C28_NotCollapsed ==
  (op = "trim" /\ valid(pre) /\ Ordered(pre) /\ ~collapsed(pre)) => Ordered(Cur)

\* C29 as stated: belongsTo('document') returns true in every selection state,
\* an invalid selection included
C29_DocumentAlways ==
  (op = "belongsTo" /\ arg.type = "document") => arg.ret

\* C29 amended: belongsTo('document') returns true exactly when the selection is
\* valid, and false when the start or the end is unset
C29_DocumentWhenValid ==
  (op = "belongsTo" /\ arg.type = "document") => (arg.ret <=> valid(pre))

\* belongsTo('document') returned false on a selection whose start is in the
\* tree and whose end is unset
C29_Witness ==
  /\ op = "belongsTo" /\ arg.type = "document"
  /\ ~arg.ret
  /\ Attached(pre, pre.start) /\ pre.end = Null

\* the characters of the leaves frag[i..] of a fragment
RECURSIVE FragText(_, _)
FragText(frag, i) ==
  IF i > Len(frag) THEN <<>> ELSE frag[i].value \o FragText(frag, i + 1)

C31_StackInPairs ==
  /\ Len(stack) % 2 = 0
  /\ op = "save" =>
       /\ Len(stack) = Len(pre.stack) + 2
       /\ SubSeq(stack, 1, Len(pre.stack)) = pre.stack
  /\ (op = "restore" /\ Len(pre.stack) > 0) =>
       stack = SubSeq(pre.stack, 1, Len(pre.stack) - 2)
  /\ (op = "restore" /\ Len(pre.stack) = 0) =>
       /\ ~raised /\ stack = <<>>
       /\ SameSelection(pre) /\ SameTree(pre) /\ modified = pre.modified
  /\ (op = "defrag" /\ ~raised) => stack = pre.stack

\* a selection was saved, defrag() ran its own save() and restore() on top of
\* it, and restore() then popped the selection saved first
C31_Witness ==
  /\ op = "restore" /\ pre.op = "defrag"
  /\ Len(pre.stack) = 2 /\ stack = <<>>
  /\ PopsRecorded(pre)
  /\ valid(pre) /\ valid(Cur) /\ ~raised

\* no iteration of a walk visited a leaf twice or failed to go to a strictly
\* earlier (later) leaf, and the walk visited no more leaves than the tree has
WalkAdvances ==
  op = "moving" =>
    /\ ~arg.stalled
    /\ arg.node # Null => arg.seen \subseteq { Flat(Cur)[k] : k \in 1..Len(Flat(Cur)) }

\* the call returned what move() computes
WalkReturns ==
  op = "move" =>
    /\ <<start, startOfs>> = movePoint(pre, pre.start, pre.startOfs, arg.d)
    /\ <<end, endOfs>> = movePoint(pre, pre.end, pre.endOfs, arg.e)

\* C32: move(deltaStart, deltaEnd) terminates on every tree for every pair of
\* deltas, zero-length leaves included: every iteration of the walk of an
\* endpoint goes to a strictly earlier (later) leaf, no leaf is visited twice in
\* one direction, and every call that is made returns
C32_MoveTerminates ==
  /\ [](WalkAdvances /\ WalkReturns)
  /\ (op = "moving") ~> (op = "move")

\* the end walked back from the last leaf to the first over a zero-length leaf,
\* visiting the three leaves once each
C32_Witness ==
  /\ op = "moving" /\ arg.point = "end" /\ arg.dir = "back"
  /\ arg.seen = {1, 2, 3} /\ arg.node = 1
  /\ length(Cur, 2) = 0
  /\ ~arg.stalled /\ walkOver(Cur, arg)

=============================================================================
